---- MODULE Spec2Model ----
(***************************************************************************)
(* The mirror worker (Cloudflare Worker over an R2 bucket): the fetch      *)
(* handler, its path sanitizer, its router and its directory listing; and  *)
(* the scripts cleanup-r2.ts and deploy-site.ts that write the bucket.     *)
(*                                                                         *)
(* A JavaScript string is a sequence of characters; a character is a one-  *)
(* character TLA+ string ("a", "/", "%").  A character that has no         *)
(* printable ASCII form is the string "U+" followed by its code point in   *)
(* decimal ("U+0" is the null character).                                  *)
(***************************************************************************)
EXTENDS Integers, Sequences, FiniteSets, TLC

\* The bucket, the request being handled by the worker, and, for the scripts
\* of the deployment, the local files and the locals of each script's main;
\* render is the last call of formatSize made on its own; inflight holds the
\* requests the runtime has handed to the worker at the same time.
VARIABLES store, pc, request, response, storeOps, fs, cleanup, deploy, render, inflight

vars == <<store, pc, request, response, storeOps, fs, cleanup, deploy, render, inflight>>

-----------------------------------------------------------------------------
(* Characters                                                              *)

Printable ==
  << " ", "!", "\"", "#", "$", "%", "&", "'", "(", ")", "*", "+", ",", "-", ".", "/",
     "0", "1", "2", "3", "4", "5", "6", "7", "8", "9", ":", ";", "<", "=", ">", "?",
     "@", "A", "B", "C", "D", "E", "F", "G", "H", "I", "J", "K", "L", "M", "N", "O",
     "P", "Q", "R", "S", "T", "U", "V", "W", "X", "Y", "Z", "[", "\\", "]", "^", "_",
     "U+96", "a", "b", "c", "d", "e", "f", "g", "h", "i", "j", "k", "l", "m", "n", "o",
     "p", "q", "r", "s", "t", "u", "v", "w", "x", "y", "z", "{", "|", "}", "~" >>

\* The character of a code point: Printable holds the code points 32..126
\* (the grave accent, 96, is written "U+96").
CharOfCode(cp) ==
  IF cp >= 32 /\ cp <= 126 THEN Printable[cp - 31] ELSE "U+" \o ToString(cp)

NUL == CharOfCode(0)

Digits == {"0", "1", "2", "3", "4", "5", "6", "7", "8", "9"}
LowerLetters == {Printable[i] : i \in 66..91}
UpperLetters == {Printable[i] : i \in 34..59}

\* [a-zA-Z0-9]
IsAlnum(c) == c \in Digits \cup LowerLetters \cup UpperLetters

IsHexDigit(c) ==
  c \in Digits \cup {"a", "b", "c", "d", "e", "f", "A", "B", "C", "D", "E", "F"}

HexValue(c) ==
  CASE c \in Digits -> CHOOSE i \in 0..9 : Printable[17 + i] = c
    [] c \in {"a", "b", "c", "d", "e", "f"} -> 10 + (CHOOSE i \in 0..5 : Printable[66 + i] = c)
    [] OTHER -> 10 + (CHOOSE i \in 0..5 : Printable[34 + i] = c)

\* String.prototype.toLowerCase on one character
LowerChar(c) ==
  IF c \in UpperLetters THEN Printable[(CHOOSE i \in 34..59 : Printable[i] = c) + 32] ELSE c

-----------------------------------------------------------------------------
(* Strings: the methods of String the worker calls, on sequences           *)

toLowerCase(s) == [i \in 1..Len(s) |-> LowerChar(s[i])]

\* s.slice(from), from >= 0 counted from the start (0-based)
SliceFrom(s, from) == IF from >= Len(s) THEN <<>> ELSE SubSeq(s, from + 1, Len(s))

\* s.slice(0, -1)
DropLast(s) == IF Len(s) = 0 THEN <<>> ELSE SubSeq(s, 1, Len(s) - 1)

\* s.slice(0, n)
Take(s, n) == IF n >= Len(s) THEN s ELSE SubSeq(s, 1, n)

startsWith(s, p) == Len(p) <= Len(s) /\ SubSeq(s, 1, Len(p)) = p

endsWith(s, p) == Len(p) <= Len(s) /\ SubSeq(s, Len(s) - Len(p) + 1, Len(s)) = p

\* s.includes(sub)
includes(s, sub) ==
  \E i \in 1..(Len(s) - Len(sub) + 1) : SubSeq(s, i, i + Len(sub) - 1) = sub

\* s.lastIndexOf(c) for a character c: 0-based, -1 when absent
lastIndexOf(s, c) ==
  IF \E i \in 1..Len(s) : s[i] = c
  THEN (CHOOSE i \in 1..Len(s) : s[i] = c /\ \A j \in (i + 1)..Len(s) : s[j] # c) - 1
  ELSE -1

\* s.split(c) for a character c: the segments between the occurrences of c
RECURSIVE split(_, _)
split(s, c) ==
  IF \E i \in 1..Len(s) : s[i] = c
  THEN LET i == CHOOSE k \in 1..Len(s) : s[k] = c /\ \A j \in 1..(k - 1) : s[j] # c
       IN  <<SubSeq(s, 1, i - 1)>> \o split(SubSeq(s, i + 1, Len(s)), c)
  ELSE <<s>>

\* parts.join(c) for a character c
RECURSIVE join(_, _)
join(parts, c) ==
  IF Len(parts) = 0 THEN <<>>
  ELSE IF Len(parts) = 1 THEN parts[1]
  ELSE parts[1] \o <<c>> \o join(Tail(parts), c)

-----------------------------------------------------------------------------
(* String literals of the worker, as sequences of characters               *)

S_SLASH_INDEX_HTML == <<"/", "i", "n", "d", "e", "x", ".", "h", "t", "m", "l">>
S_SLASH_GRADLE_SLASH == <<"/", "g", "r", "a", "d", "l", "e", "/">>
S_INDEX_HTML == <<"i", "n", "d", "e", "x", ".", "h", "t", "m", "l">>

-----------------------------------------------------------------------------
(* decodeURIComponent, as sanitizePath calls it                             *)

\* "%XX" with two hexadecimal digits starts at position k of s
EscapeAt(s, k) ==
  k + 2 <= Len(s) /\ s[k] = "%" /\ IsHexDigit(s[k + 1]) /\ IsHexDigit(s[k + 2])

\* the octet of the escape at position k
ByteAt(s, k) == 16 * HexValue(s[k + 1]) + HexValue(s[k + 2])

\* the length of the UTF-8 sequence a first octet announces; 0: no first octet
Utf8Length(b) ==
  IF b < 128 THEN 1
  ELSE IF b >= 192 /\ b < 224 THEN 2
  ELSE IF b >= 224 /\ b < 240 THEN 3
  ELSE IF b >= 240 /\ b < 248 THEN 4
  ELSE 0

\* the n - 1 escapes after the one at k are continuation octets (10xxxxxx)
ContinuationsAt(s, k, n) ==
  \A j \in 1..(n - 1) : EscapeAt(s, k + 3 * j) /\ ByteAt(s, k + 3 * j) \in 128..191

\* the code point of the n-octet sequence at k
CodePointAt(s, k, n) ==
  CASE n = 1 -> ByteAt(s, k)
    [] n = 2 -> (ByteAt(s, k) - 192) * 64 + (ByteAt(s, k + 3) - 128)
    [] n = 3 -> (ByteAt(s, k) - 224) * 4096 + (ByteAt(s, k + 3) - 128) * 64
                + (ByteAt(s, k + 6) - 128)
    [] OTHER -> (ByteAt(s, k) - 240) * 262144 + (ByteAt(s, k + 3) - 128) * 4096
                + (ByteAt(s, k + 6) - 128) * 64 + (ByteAt(s, k + 9) - 128)

\* the sequence is the shortest encoding of a Unicode scalar value
ValidCodePoint(cp, n) ==
  CASE n = 1 -> TRUE
    [] n = 2 -> cp >= 128
    [] n = 3 -> cp >= 2048 /\ ~(cp >= 55296 /\ cp <= 57343)
    [] OTHER -> cp >= 65536 /\ cp <= 1114111

DecodeFailure == [ok |-> FALSE, value |-> <<>>]

RECURSIVE DecodeFrom(_, _)
DecodeFrom(s, k) ==
  IF k > Len(s) THEN [ok |-> TRUE, value |-> <<>>]
  ELSE IF s[k] # "%"
  THEN LET r == DecodeFrom(s, k + 1)
       IN  IF r.ok THEN [ok |-> TRUE, value |-> <<s[k]>> \o r.value] ELSE DecodeFailure
  ELSE IF ~EscapeAt(s, k) THEN DecodeFailure
  ELSE LET n == Utf8Length(ByteAt(s, k))
       IN  IF n = 0 \/ ~ContinuationsAt(s, k, n) THEN DecodeFailure
           ELSE IF ~ValidCodePoint(CodePointAt(s, k, n), n) THEN DecodeFailure
           ELSE LET r == DecodeFrom(s, k + 3 * n)
                IN  IF r.ok
                    THEN [ok |-> TRUE, value |-> <<CharOfCode(CodePointAt(s, k, n))>> \o r.value]
                    ELSE DecodeFailure

\* ok = FALSE: decodeURIComponent throws URIError
decodeURIComponent(s) == DecodeFrom(s, 1)

-----------------------------------------------------------------------------
(* new URL(...).pathname: the path of a URL as the URL parser writes it      *)

\* a segment as the parser writes it: the printable characters outside the
\* path percent-encode set as they are, every other character as the escapes
\* of its UTF-8 octets (the code points of the model are below U+0800)
RECURSIVE percentEncode(_)
percentEncode(segment) ==
  IF segment = <<>> THEN <<>>
  ELSE LET c == Head(segment)
           hex == <<"0", "1", "2", "3", "4", "5", "6", "7", "8", "9", "A", "B", "C", "D", "E", "F">>
           escape(b) == <<"%", hex[(b \div 16) + 1], hex[(b % 16) + 1]>>
           cp == CHOOSE n \in 0..2047 : CharOfCode(n) = c
           plain == c \in {Printable[i] : i \in 1..Len(Printable)}
                          \ {" ", "\"", "#", "<", ">", "?", "^", CharOfCode(96), "{", "}"}
       IN  (IF plain THEN <<c>>
            ELSE IF cp < 128 THEN escape(cp)
            ELSE escape(192 + (cp \div 64)) \o escape(128 + (cp % 64)))
           \o percentEncode(Tail(segment))

\* the path state of the parser: a double-dot segment ("..", also written with
\* %2e) takes the last segment away, a single-dot segment is dropped, the
\* others are percent-encoded
RECURSIVE ParseSegments(_, _)
ParseSegments(segments, parsed) ==
  IF segments = <<>> THEN parsed
  ELSE LET segment == toLowerCase(Head(segments))
           last == Len(segments) = 1
           popped == IF parsed = <<>> THEN parsed ELSE DropLast(parsed)
       IN  IF segment \in { <<".", ".">>, <<".", "%", "2", "e">>, <<"%", "2", "e", ".">>,
                            <<"%", "2", "e", "%", "2", "e">> }
           THEN ParseSegments(Tail(segments), IF last THEN Append(popped, <<>>) ELSE popped)
           ELSE IF segment \in { <<".">>, <<"%", "2", "e">> }
           THEN ParseSegments(Tail(segments), IF last THEN Append(parsed, <<>>) ELSE parsed)
           ELSE ParseSegments(Tail(segments), Append(parsed, percentEncode(Head(segments))))

\* the pathname of the URL whose text after the origin is input ("/..."): tabs
\* and line breaks are taken out, the path ends at the first "?" or "#"
URL_pathname(input) ==
  LET kept == SelectSeq(input, LAMBDA c : c \notin {CharOfCode(9), CharOfCode(10), CharOfCode(13)})
      ends == {i \in 1..Len(kept) : kept[i] \in {"?", "#"}}
      path == IF ends = {} THEN kept
              ELSE SubSeq(kept, 1, (CHOOSE i \in ends : \A j \in ends : i <= j) - 1)
  IN  <<"/">> \o join(ParseSegments(Tail(split(path, "/")), <<>>), "/")

-----------------------------------------------------------------------------
(* The worker's constants and pure helpers                                  *)

SPA_ROUTES == { <<"/">>, S_SLASH_INDEX_HTML }

\* mutant: the pattern /\.[a-zA-Z][a-zA-Z0-9]*$/, an extension starts with a letter
FILE_EXTENSIONS_test_letterFirst(path) ==
  \E i \in 1..(Len(path) - 1) :
    /\ path[i] = "."
    /\ path[i + 1] \in LowerLetters \cup UpperLetters
    /\ \A j \in (i + 1)..Len(path) : IsAlnum(path[j])

\* FILE_EXTENSIONS.test(path) for /\.[a-zA-Z0-9]+$/
FILE_EXTENSIONS_test(path) ==
  \E i \in 1..(Len(path) - 1) :
    path[i] = "." /\ \A j \in (i + 1)..Len(path) : IsAlnum(path[j])

\* null = TRUE: sanitizePath returns null
PathRejected == [null |-> TRUE, path |-> <<>>]

\* mutant: the check of the segments is missing
sanitizePath_noSegmentCheck(rawPath) ==
  LET decoded == decodeURIComponent(rawPath)
  IN  IF ~decoded.ok THEN PathRejected
      ELSE IF includes(decoded.value, <<NUL>>) \/ includes(decoded.value, <<"\\">>)
      THEN PathRejected
      ELSE [null |-> FALSE, path |-> decoded.value]

\* mutant: the catch block keeps the raw path instead of returning null
sanitizePath_rawOnDecodeError(rawPath) ==
  LET decoded == decodeURIComponent(rawPath)
      path == IF decoded.ok THEN decoded.value ELSE rawPath
  IN  IF includes(path, <<NUL>>) \/ includes(path, <<"\\">>) THEN PathRejected
      ELSE IF \E i \in 1..Len(split(path, "/")) : split(path, "/")[i] = <<".", ".">>
      THEN PathRejected
      ELSE [null |-> FALSE, path |-> path]

sanitizePath(rawPath) ==
  LET decoded == decodeURIComponent(rawPath)
  IN  IF ~decoded.ok THEN PathRejected
      ELSE LET path == decoded.value
           IN  IF includes(path, <<NUL>>) \/ includes(path, <<"\\">>) THEN PathRejected
               ELSE LET segments == split(path, "/")
                    IN  IF \E i \in 1..Len(segments) : segments[i] = <<".", ".">>
                        THEN PathRejected
                        ELSE [null |-> FALSE, path |-> path]

\* the own properties of the types object of getContentType
ContentTypes ==
  ( <<"h", "t", "m", "l">> :> "text/html; charset=utf-8" ) @@
  ( <<"c", "s", "s">> :> "text/css; charset=utf-8" ) @@
  ( <<"j", "s">> :> "application/javascript; charset=utf-8" ) @@
  ( <<"j", "s", "o", "n">> :> "application/json" ) @@
  ( <<"s", "v", "g">> :> "image/svg+xml" ) @@
  ( <<"p", "n", "g">> :> "image/png" ) @@
  ( <<"j", "p", "g">> :> "image/jpeg" ) @@
  ( <<"j", "p", "e", "g">> :> "image/jpeg" ) @@
  ( <<"g", "i", "f">> :> "image/gif" ) @@
  ( <<"i", "c", "o">> :> "image/x-icon" ) @@
  ( <<"z", "i", "p">> :> "application/zip" ) @@
  ( <<"g", "z">> :> "application/gzip" ) @@
  ( <<"t", "a", "r">> :> "application/x-tar" ) @@
  ( <<"p", "d", "f">> :> "application/pdf" ) @@
  ( <<"t", "x", "t">> :> "text/plain; charset=utf-8" ) @@
  ( <<"x", "m", "l">> :> "application/xml" )

\* types is an object literal: a lookup of a name it does not own falls through
\* to Object.prototype, whose members are truthy and are returned as they are
InheritedTypes ==
  ( <<"c", "o", "n", "s", "t", "r", "u", "c", "t", "o", "r">> :> "function Object() { [native code] }" ) @@
  ( <<"t", "o", "S", "t", "r", "i", "n", "g">> :> "function toString() { [native code] }" ) @@
  ( <<"v", "a", "l", "u", "e", "O", "f">> :> "function valueOf() { [native code] }" ) @@
  ( <<"_", "_", "p", "r", "o", "t", "o", "_", "_">> :> "[object Object]" )

getContentType(path) ==
  LET parts == split(path, ".")
      ext == toLowerCase(parts[Len(parts)])
  IN  IF ext \in DOMAIN ContentTypes THEN ContentTypes[ext]
      ELSE IF ext \in DOMAIN InheritedTypes THEN InheritedTypes[ext]
      ELSE "application/octet-stream"

\* Number.prototype.toString for a non-negative integer: its decimal digits
RECURSIVE NumberToString(_)
NumberToString(n) ==
  IF n < 10 THEN <<Printable[17 + n]>>
  ELSE NumberToString(n \div 10) \o <<Printable[17 + (n % 10)]>>

-----------------------------------------------------------------------------
(* The R2 bucket: a set of objects with distinct keys                       *)

HasObject(bucket, key) == \E o \in bucket : o.key = key

ObjectAt(bucket, key) == CHOOSE o \in bucket : o.key = key

\* the code unit of a printable character, the order R2 lists keys in
CodeOf(c) ==
  IF \E i \in 1..Len(Printable) : Printable[i] = c
  THEN 31 + (CHOOSE i \in 1..Len(Printable) : Printable[i] = c)
  ELSE 128

\* a < b in code unit order
RECURSIVE KeyLess(_, _)
KeyLess(a, b) ==
  IF Len(b) = 0 THEN FALSE
  ELSE IF Len(a) = 0 THEN TRUE
  ELSE IF a[1] # b[1] THEN CodeOf(a[1]) < CodeOf(b[1])
  ELSE KeyLess(Tail(a), Tail(b))

\* the strings of a finite set, in ascending code unit order
RECURSIVE InKeyOrder(_)
InKeyOrder(S) ==
  IF S = {} THEN <<>>
  ELSE LET least == CHOOSE x \in S : \A y \in S \ {x} : KeyLess(x, y)
       IN  <<least>> \o InKeyOrder(S \ {least})

\* env.BUCKET.get(key): null = TRUE when there is no object at key
BUCKET_get(bucket, key) ==
  IF HasObject(bucket, key)
  THEN LET o == ObjectAt(bucket, key)
       IN  [null |-> FALSE, size |-> o.size, etag |-> o.etag, body |-> o.body]
  ELSE [null |-> TRUE, size |-> 0, etag |-> "", body |-> ""]

\* env.BUCKET.head(key): the metadata only
BUCKET_head(bucket, key) ==
  IF HasObject(bucket, key)
  THEN LET o == ObjectAt(bucket, key)
       IN  [null |-> FALSE, size |-> o.size, etag |-> o.etag]
  ELSE [null |-> TRUE, size |-> 0, etag |-> ""]

\* the part of key up to and including the first delimiter after the prefix
DelimitedPrefixOf(key, prefix, delimiter) ==
  LET rest == SliceFrom(key, Len(prefix))
      i == CHOOSE k \in 1..Len(rest) : rest[k] = delimiter /\ \A j \in 1..(k - 1) : rest[j] # delimiter
  IN  Take(key, Len(prefix) + i)

\* env.BUCKET.list({ prefix, delimiter }): the objects under the prefix with no
\* delimiter after it, and the grouped prefixes of the others, both in key order
BUCKET_list(bucket, prefix, delimiter) ==
  LET under == {o \in bucket : startsWith(o.key, prefix)}
      deeper(o) == includes(SliceFrom(o.key, Len(prefix)), <<delimiter>>)
      direct == {o \in under : ~deeper(o)}
      keys == InKeyOrder({o.key : o \in direct})
  IN  [objects |-> [i \in 1..Len(keys) |-> ObjectAt(bucket, keys[i])],
       delimitedPrefixes |->
         InKeyOrder({DelimitedPrefixOf(o.key, prefix, delimiter) : o \in under \ direct})]

\* the bucket after one call on it: get, head and list only read it, put and
\* delete are the calls of R2Bucket that write
BUCKET_after(bucket, call) ==
  CASE call.op = "delete" -> {o \in bucket : o.key # call.key}
    [] call.op = "put" -> {o \in bucket : o.key # call.key} \cup {call.object}
    [] OTHER -> bucket

\* the bucket after the calls of one request, in their order
RECURSIVE BucketAfter(_, _)
BucketAfter(bucket, calls) ==
  IF calls = <<>> THEN bucket
  ELSE BucketAfter(BUCKET_after(bucket, Head(calls)), Tail(calls))

GetOp(key) == [op |-> "get", key |-> key, delimiter |-> ""]
HeadOp(key) == [op |-> "head", key |-> key, delimiter |-> ""]
ListOp(prefix, delimiter) == [op |-> "list", key |-> prefix, delimiter |-> delimiter]

-----------------------------------------------------------------------------
(* Responses                                                                *)

NullBody == [kind |-> "null"]
TextBody(text) == [kind |-> "text", text |-> text]
StreamBody(body) == [kind |-> "stream", stream |-> body]
HtmlBody(doc) == [kind |-> "html", doc |-> doc]

NoHeaders == [h \in {} |-> ""]

\* new Response(body, { status, headers }): a string body without a
\* Content-Type gets text/plain
NewResponse(body, status, headers) ==
  [status |-> status,
   headers |-> IF body.kind \in {"text", "html"} /\ "Content-Type" \notin DOMAIN headers
               THEN ("Content-Type" :> "text/plain;charset=UTF-8") @@ headers
               ELSE headers,
   body |-> body]

SECURITY_HEADERS ==
  ( "X-Content-Type-Options" :> "nosniff" ) @@
  ( "X-Frame-Options" :> "DENY" ) @@
  ( "Referrer-Policy" :> "no-referrer" )

HTML_CSP ==
  "default-src 'self'; style-src 'self' 'unsafe-inline'; img-src 'self' data:; script-src 'self'"

\* mutant: the security headers are set only inside the isHtml branch
addSecurityHeaders_onlyHtml(resp, isHtml) ==
  [status |-> resp.status,
   headers |-> IF isHtml
               THEN ("Content-Security-Policy" :> HTML_CSP) @@ SECURITY_HEADERS @@ resp.headers
               ELSE resp.headers,
   body |-> resp.body]

addSecurityHeaders(resp, isHtml) ==
  LET headers == SECURITY_HEADERS @@ resp.headers
  IN  [status |-> resp.status,
       headers |-> IF isHtml THEN ("Content-Security-Policy" :> HTML_CSP) @@ headers
                   ELSE headers,
       body |-> resp.body]

\* A header value may hold no NUL, carriage return or line feed: new Response
\* throws a TypeError for a headers entry with such a value.
IsHeaderValue(value) ==
  \A i \in 1..Len(value) : value[i] \notin {NUL, CharOfCode(10), CharOfCode(13)}

\* the outcome of a call that threw instead of returning a response
TypeError == [status |-> 0, headers |-> NoHeaders, body |-> [kind |-> "TypeError"]]

\* the Location is the one header value made from the request
secureRedirect(url) ==
  IF ~IsHeaderValue(url) THEN TypeError
  ELSE addSecurityHeaders(NewResponse(NullBody, 301, "Location" :> url), FALSE)

NoResponse == [status |-> 0, headers |-> NoHeaders, body |-> NullBody]

\* serveR2Object: null = TRUE when the object is missing; ops: the calls made
\* mutant: an object served by GET is deleted from the bucket afterwards
serveR2Object_removesServed(bucket, key, contentType, cacheControl, isHead) ==
  IF isHead
  THEN LET head == BUCKET_head(bucket, key)
       IN  IF head.null THEN [null |-> TRUE, response |-> NoResponse, ops |-> <<HeadOp(key)>>]
           ELSE [null |-> FALSE,
                 response |-> NewResponse(NullBody, 200,
                    ( "Content-Type" :> contentType ) @@
                    ( "Content-Length" :> NumberToString(head.size) ) @@
                    ( "ETag" :> head.etag ) @@
                    ( "Cache-Control" :> cacheControl )),
                 ops |-> <<HeadOp(key)>>]
  ELSE LET file == BUCKET_get(bucket, key)
       IN  IF file.null THEN [null |-> TRUE, response |-> NoResponse, ops |-> <<GetOp(key)>>]
           ELSE [null |-> FALSE,
                 response |-> NewResponse(StreamBody(file.body), 200,
                    ( "Content-Type" :> contentType ) @@
                    ( "Content-Length" :> NumberToString(file.size) ) @@
                    ( "ETag" :> file.etag ) @@
                    ( "Cache-Control" :> cacheControl )),
                 ops |-> <<GetOp(key), [op |-> "delete", key |-> key, delimiter |-> ""]>>]

\* mutant: GET asks for the metadata with head before it reads the object
serveR2Object_headThenGet(bucket, key, contentType, cacheControl, isHead) ==
  IF isHead
  THEN LET head == BUCKET_head(bucket, key)
       IN  IF head.null THEN [null |-> TRUE, response |-> NoResponse, ops |-> <<HeadOp(key)>>]
           ELSE [null |-> FALSE,
                 response |-> NewResponse(NullBody, 200,
                    ( "Content-Type" :> contentType ) @@
                    ( "Content-Length" :> NumberToString(head.size) ) @@
                    ( "ETag" :> head.etag ) @@
                    ( "Cache-Control" :> cacheControl )),
                 ops |-> <<HeadOp(key)>>]
  ELSE LET file == BUCKET_get(bucket, key)
       IN  IF file.null THEN [null |-> TRUE, response |-> NoResponse, ops |-> <<HeadOp(key)>>]
           ELSE [null |-> FALSE,
                 response |-> NewResponse(StreamBody(file.body), 200,
                    ( "Content-Type" :> contentType ) @@
                    ( "Content-Length" :> NumberToString(file.size) ) @@
                    ( "ETag" :> file.etag ) @@
                    ( "Cache-Control" :> cacheControl )),
                 ops |-> <<HeadOp(key), GetOp(key)>>]

serveR2Object(bucket, key, contentType, cacheControl, isHead) ==
  IF isHead
  THEN LET head == BUCKET_head(bucket, key)
       IN  IF head.null THEN [null |-> TRUE, response |-> NoResponse, ops |-> <<HeadOp(key)>>]
           ELSE [null |-> FALSE,
                 response |-> NewResponse(NullBody, 200,
                    ( "Content-Type" :> contentType ) @@
                    ( "Content-Length" :> NumberToString(head.size) ) @@
                    ( "ETag" :> head.etag ) @@
                    ( "Cache-Control" :> cacheControl )),
                 ops |-> <<HeadOp(key)>>]
  ELSE LET file == BUCKET_get(bucket, key)
       IN  IF file.null THEN [null |-> TRUE, response |-> NoResponse, ops |-> <<GetOp(key)>>]
           ELSE [null |-> FALSE,
                 response |-> NewResponse(StreamBody(file.body), 200,
                    ( "Content-Type" :> contentType ) @@
                    ( "Content-Length" :> NumberToString(file.size) ) @@
                    ( "ETag" :> file.etag ) @@
                    ( "Cache-Control" :> cacheControl )),
                 ops |-> <<GetOp(key)>>]

\* mutant: HEAD is served like GET, from BUCKET.get, without Content-Length
serveFile_headReadsBody(bucket, key, contentType, isHead) ==
  LET file == BUCKET_get(bucket, key)
  IN  IF file.null
      THEN [response |-> NewResponse(TextBody("Not Found"), 404, NoHeaders),
            ops |-> <<GetOp(key)>>]
      ELSE [response |-> NewResponse(StreamBody(file.body), 200,
               ( "Content-Type" :> contentType ) @@
               ( "Cache-Control" :> "public, max-age=300" )),
            ops |-> <<GetOp(key)>>]

serveFile(bucket, key, contentType, isHead) ==
  IF isHead
  THEN LET head == BUCKET_head(bucket, key)
       IN  IF head.null
           THEN [response |-> NewResponse(TextBody("Not Found"), 404, NoHeaders),
                 ops |-> <<HeadOp(key)>>]
           ELSE [response |-> NewResponse(NullBody, 200,
                    ( "Content-Type" :> contentType ) @@
                    ( "Content-Length" :> NumberToString(head.size) ) @@
                    ( "Cache-Control" :> "public, max-age=300" )),
                 ops |-> <<HeadOp(key)>>]
  ELSE LET file == BUCKET_get(bucket, key)
       IN  IF file.null
           THEN [response |-> NewResponse(TextBody("Not Found"), 404, NoHeaders),
                 ops |-> <<GetOp(key)>>]
           ELSE [response |-> NewResponse(StreamBody(file.body), 200,
                    ( "Content-Type" :> contentType ) @@
                    ( "Cache-Control" :> "public, max-age=300" )),
                 ops |-> <<GetOp(key)>>]

-----------------------------------------------------------------------------
(* The directory listing                                                    *)

\* the order of the root collation on the printable ASCII characters other
\* than the upper-case letters; localeCompare is only called on lower-cased names
CollationOrder ==
  << " ", "_", "-", ",", ";", ":", "!", "?", ".", "'", "\"", "(", ")", "[", "]", "{", "}",
     "@", "*", "/", "\\", "&", "#", "%", "U+96", "^", "+", "<", "=", ">", "|", "~", "$",
     "0", "1", "2", "3", "4", "5", "6", "7", "8", "9",
     "a", "b", "c", "d", "e", "f", "g", "h", "i", "j", "k", "l", "m",
     "n", "o", "p", "q", "r", "s", "t", "u", "v", "w", "x", "y", "z" >>

CollationRank(c) ==
  IF \E i \in 1..Len(CollationOrder) : CollationOrder[i] = c
  THEN CHOOSE i \in 1..Len(CollationOrder) : CollationOrder[i] = c
  ELSE Len(CollationOrder) + 1

\* a.localeCompare(b): negative, zero or positive
RECURSIVE localeCompare(_, _)
localeCompare(a, b) ==
  IF Len(a) = 0 /\ Len(b) = 0 THEN 0
  ELSE IF Len(a) = 0 THEN -1
  ELSE IF Len(b) = 0 THEN 1
  ELSE IF CollationRank(a[1]) < CollationRank(b[1]) THEN -1
  ELSE IF CollationRank(a[1]) > CollationRank(b[1]) THEN 1
  ELSE localeCompare(Tail(a), Tail(b))

\* mutant: ascending order, (a, b) => a.toLowerCase().localeCompare(b.toLowerCase())
compareNames_ascending(a, b) == localeCompare(toLowerCase(a), toLowerCase(b))

\* the comparators of the two sorts: (a, b) => b.toLowerCase().localeCompare(a.toLowerCase())
compareNames(a, b) == localeCompare(toLowerCase(b), toLowerCase(a))

\* Array.prototype.sort is stable: x goes before the first entry that compares
\* greater than it
Insert(x, sorted) ==
  LET after == {i \in 1..Len(sorted) : compareNames(sorted[i].name, x.name) > 0}
      at == IF after = {} THEN Len(sorted) + 1
            ELSE CHOOSE i \in after : \A j \in after : i <= j
  IN  SubSeq(sorted, 1, at - 1) \o <<x>> \o SubSeq(sorted, at, Len(sorted))

RECURSIVE sort(_)
sort(entries) ==
  IF Len(entries) = 0 THEN <<>>
  ELSE Insert(entries[Len(entries)], sort(DropLast(entries)))

\* mutant: the trailing separator is cut off the name
directoryName_stripsSeparator(delimitedPrefix) ==
  SliceFrom(DropLast(delimitedPrefix), lastIndexOf(DropLast(delimitedPrefix), "/") + 1)

\* the name of a child directory, from one of listed.delimitedPrefixes
directoryName(delimitedPrefix) ==
  SliceFrom(delimitedPrefix, lastIndexOf(DropLast(delimitedPrefix), "/") + 1)

\* mutant: the object at the prefix itself is not skipped
RECURSIVE collectFiles_keepsMarker(_, _)
collectFiles_keepsMarker(objects, prefix) ==
  IF Len(objects) = 0 THEN <<>>
  ELSE LET object == objects[1]
           name == SliceFrom(object.key, Len(prefix))
           rest == collectFiles_keepsMarker(Tail(objects), prefix)
       IN  IF includes(name, <<"/">>) THEN rest
           ELSE <<[name |-> name, size |-> object.size, modified |-> object.uploaded]>> \o rest

\* the loop over listed.objects
RECURSIVE collectFiles(_, _)
collectFiles(objects, prefix) ==
  IF Len(objects) = 0 THEN <<>>
  ELSE LET object == objects[1]
           name == SliceFrom(object.key, Len(prefix))
           rest == collectFiles(Tail(objects), prefix)
       IN  IF object.key = prefix THEN rest
           ELSE IF includes(name, <<"/">>) THEN rest
           ELSE <<[name |-> name, size |-> object.size, modified |-> object.uploaded]>> \o rest

\* mutant: the apostrophe is left as it is
escapeChar_keepsApostrophe(c) ==
  CASE c = "&" -> <<"&", "a", "m", "p", ";">>
    [] c = "<" -> <<"&", "l", "t", ";">>
    [] c = ">" -> <<"&", "g", "t", ";">>
    [] c = "\"" -> <<"&", "q", "u", "o", "t", ";">>
    [] OTHER -> <<c>>

escapeChar(c) ==
  CASE c = "&" -> <<"&", "a", "m", "p", ";">>
    [] c = "<" -> <<"&", "l", "t", ";">>
    [] c = ">" -> <<"&", "g", "t", ";">>
    [] c = "\"" -> <<"&", "q", "u", "o", "t", ";">>
    [] c = "'" -> <<"&", "#", "0", "3", "9", ";">>
    [] OTHER -> <<c>>

RECURSIVE escapeHtml(_)
escapeHtml(str) ==
  IF Len(str) = 0 THEN <<>> ELSE escapeChar(str[1]) \o escapeHtml(Tail(str))

\* A byte count is a JavaScript Number and may exceed 32 bits: formatSize takes
\* it as its digits in base 1024, the most significant first (<<1, 512>> is
\* 1536, <<0>> is 0).
RECURSIVE Base1024(_)
Base1024(n) == IF n < 1024 THEN <<n>> ELSE Base1024(n \div 1024) \o <<n % 1024>>

\* ten times the fraction 0.f[1]f[2]... of base 1024: the integer part is carry
RECURSIVE TimesTen(_)
TimesTen(f) ==
  IF f = <<>> THEN [carry |-> 0, digits |-> <<>>]
  ELSE LET rest == TimesTen(Tail(f))
           v == 10 * Head(f) + rest.carry
       IN  [carry |-> v \div 1024, digits |-> <<v % 1024>> \o rest.digits]

UNITS == << <<"B">>, <<"K", "B">>, <<"M", "B">>, <<"G", "B">>, <<"T", "B">> >>

\* i = Math.floor(Math.log(bytes) / Math.log(1024)) is the number of digits
\* after the first; bytes / Math.pow(1024, i) is the first digit and the others
\* as its fraction; toFixed(1) is the nearest tenth, the larger one on a tie;
\* units[i] is undefined from i = 5 on and the template writes "undefined"
formatSize(bytes) ==
  IF bytes = <<0>> THEN <<"0", " ", "B">>
  ELSE LET i == Len(bytes) - 1
           unit == IF i + 1 <= Len(UNITS) THEN UNITS[i + 1]
                   ELSE <<"u", "n", "d", "e", "f", "i", "n", "e", "d">>
           scaled == TimesTen(Tail(bytes))
           tenths == 10 * bytes[1] + scaled.carry
                     + (IF scaled.digits # <<>> /\ scaled.digits[1] >= 512 THEN 1 ELSE 0)
       IN  IF i > 0
           THEN NumberToString(tenths \div 10) \o <<".">> \o NumberToString(tenths % 10)
                \o <<" ">> \o unit
           ELSE NumberToString(bytes[1]) \o <<" ">> \o unit

\* date.toISOString().slice(0, 16).replace('T', ' '); a date is its ISO string
formatDate(date) ==
  LET s == Take(date, 16)
  IN  [i \in 1..Len(s) |->
         IF s[i] = "T" /\ \A j \in 1..(i - 1) : s[j] # "T" THEN " " ELSE s[i]]

\* mutant: slice(0, -1) for slice(0, -2), the ".." row links to the page itself
generateHTML_parentIsSelf(path, directories, files) ==
  LET segments == split(path, "/")
      parentPath == join(SubSeq(segments, 1, Len(segments) - 1), "/") \o <<"/">>
      safePath == escapeHtml(path)
      parentRows ==
        IF path = <<"/">> THEN <<>>
        ELSE <<[kind |-> "parent", href |-> escapeHtml(parentPath), text |-> <<".", ".">>,
                size |-> <<"-">>, modified |-> <<"-">>]>>
      dirRows ==
        [i \in 1..Len(directories) |->
           [kind |-> "dir", href |-> safePath \o escapeHtml(directories[i]),
            text |-> escapeHtml(directories[i]), size |-> <<"-">>, modified |-> <<"-">>]]
      fileRows ==
        [i \in 1..Len(files) |->
           [kind |-> "file", href |-> safePath \o escapeHtml(files[i].name),
            text |-> escapeHtml(files[i].name), size |-> formatSize(Base1024(files[i].size)),
            modified |-> formatDate(files[i].modified)]]
  IN  [title |-> safePath, heading |-> safePath, rows |-> parentRows \o dirRows \o fileRows]

\* the document of generateHTML: its title and its table rows, in order
generateHTML(path, directories, files) ==
  LET segments == split(path, "/")
      parentPath == join(SubSeq(segments, 1, Len(segments) - 2), "/") \o <<"/">>
      safePath == escapeHtml(path)
      parentRows ==
        IF path = <<"/">> THEN <<>>
        ELSE <<[kind |-> "parent", href |-> escapeHtml(parentPath), text |-> <<".", ".">>,
                size |-> <<"-">>, modified |-> <<"-">>]>>
      dirRows ==
        [i \in 1..Len(directories) |->
           [kind |-> "dir", href |-> safePath \o escapeHtml(directories[i]),
            text |-> escapeHtml(directories[i]), size |-> <<"-">>, modified |-> <<"-">>]]
      fileRows ==
        [i \in 1..Len(files) |->
           [kind |-> "file", href |-> safePath \o escapeHtml(files[i].name),
            text |-> escapeHtml(files[i].name), size |-> formatSize(Base1024(files[i].size)),
            modified |-> formatDate(files[i].modified)]]
  IN  [title |-> safePath, heading |-> safePath, rows |-> parentRows \o dirRows \o fileRows]

\* the two arrays of generateDirectoryListing before they are sorted
collectDirectories(listed) ==
  [i \in 1..Len(listed.delimitedPrefixes) |->
     [name |-> directoryName(listed.delimitedPrefixes[i])]]

generateDirectoryListing(bucket, prefix, displayPath) ==
  LET listed == BUCKET_list(bucket, prefix, "/")
      directories == sort(collectDirectories(listed))
      files == sort(collectFiles(listed.objects, prefix))
      html == generateHTML(displayPath,
                           [i \in 1..Len(directories) |-> directories[i].name], files)
  IN  [response |-> NewResponse(HtmlBody(html), 200,
          ( "Content-Type" :> "text/html; charset=utf-8" ) @@
          ( "Cache-Control" :> "public, max-age=31536000" )),
       ops |-> <<ListOp(prefix, "/")>>]

-----------------------------------------------------------------------------
(* The fetch handler                                                        *)

\* path.startsWith('/') ? path.slice(1) : path
keyOf(path) == IF startsWith(path, <<"/">>) THEN SliceFrom(path, 1) ELSE path

\* if (response) return addSecurityHeaders(response);
\* return addSecurityHeaders(new Response('Not Found', { status: 404 }));
foundOrNotFound(r) ==
  IF ~r.null
  THEN [response |-> addSecurityHeaders(r.response, FALSE), ops |-> r.ops]
  ELSE [response |-> addSecurityHeaders(NewResponse(TextBody("Not Found"), 404, NoHeaders), FALSE),
        ops |-> r.ops]

\* if (response) return addSecurityHeaders(response); else redirect to url
foundOrRedirect(r, url) ==
  IF ~r.null
  THEN [response |-> addSecurityHeaders(r.response, FALSE), ops |-> r.ops]
  ELSE [response |-> secureRedirect(url), ops |-> r.ops]

\* return addSecurityHeaders(await ..., true)
asHtml(r) == [response |-> addSecurityHeaders(r.response, TRUE), ops |-> r.ops]

\* mutant: a missing asset falls back to the shell document
routeContent_assetFallsBackToShell(req, bucket, path, isHead) ==
  IF FILE_EXTENSIONS_test(path) /\ ~includes(path, S_SLASH_GRADLE_SLASH)
  THEN IF HasObject(bucket, keyOf(path))
       THEN foundOrNotFound(serveR2Object(bucket, keyOf(path), getContentType(path),
                                          "public, max-age=31536000, immutable", isHead))
       ELSE asHtml(serveFile(bucket, S_INDEX_HTML, "text/html; charset=utf-8", isHead))
  ELSE IF ~endsWith(path, <<"/">>) /\ ~FILE_EXTENSIONS_test(path)
  THEN foundOrRedirect(serveR2Object(bucket, keyOf(path), getContentType(path),
                                     "public, max-age=86400", isHead),
                       req.origin \o path \o <<"/">>)
  ELSE IF endsWith(path, <<"/">>)
  THEN asHtml(generateDirectoryListing(
                bucket, IF path = <<"/">> THEN <<>> ELSE SliceFrom(path, 1), path))
  ELSE foundOrNotFound(serveR2Object(bucket, keyOf(path), getContentType(path),
                                     "public, max-age=86400", isHead))

\* mutant: the static asset branch does not look for "/gradle/" in the path
routeContent_ignoresGradleDir(req, bucket, path, isHead) ==
  IF FILE_EXTENSIONS_test(path)
  THEN foundOrNotFound(serveR2Object(bucket, keyOf(path), getContentType(path),
                                     "public, max-age=31536000, immutable", isHead))
  ELSE IF ~endsWith(path, <<"/">>) /\ ~FILE_EXTENSIONS_test(path)
  THEN foundOrRedirect(serveR2Object(bucket, keyOf(path), getContentType(path),
                                     "public, max-age=86400", isHead),
                       req.origin \o path \o <<"/">>)
  ELSE IF endsWith(path, <<"/">>)
  THEN asHtml(generateDirectoryListing(
                bucket, IF path = <<"/">> THEN <<>> ELSE SliceFrom(path, 1), path))
  ELSE foundOrNotFound(serveR2Object(bucket, keyOf(path), getContentType(path),
                                     "public, max-age=86400", isHead))

\* fetch after the SPA routes: static assets, then the mirror content
routeContent(req, bucket, path, isHead) ==
  IF FILE_EXTENSIONS_test(path) /\ ~includes(path, S_SLASH_GRADLE_SLASH)
  THEN foundOrNotFound(serveR2Object(bucket, keyOf(path), getContentType(path),
                                     "public, max-age=31536000, immutable", isHead))
  ELSE IF ~endsWith(path, <<"/">>) /\ ~FILE_EXTENSIONS_test(path)
  THEN foundOrRedirect(serveR2Object(bucket, keyOf(path), getContentType(path),
                                     "public, max-age=86400", isHead),
                       req.origin \o path \o <<"/">>)
  ELSE IF endsWith(path, <<"/">>)
  THEN asHtml(generateDirectoryListing(
                bucket, IF path = <<"/">> THEN <<>> ELSE SliceFrom(path, 1), path))
  ELSE foundOrNotFound(serveR2Object(bucket, keyOf(path), getContentType(path),
                                     "public, max-age=86400", isHead))

\* mutant: the shell is looked up at the key of the request path
route_shellKeyFromPath(req, bucket, path, isHead) ==
  IF path \in SPA_ROUTES
  THEN asHtml(serveFile(bucket, keyOf(path), "text/html; charset=utf-8", isHead))
  ELSE routeContent(req, bucket, path, isHead)

\* mutant: only "/" is a shell route, /index.html is served as a static asset
route_indexIsAsset(req, bucket, path, isHead) ==
  IF path = <<"/">>
  THEN asHtml(serveFile(bucket, S_INDEX_HTML, "text/html; charset=utf-8", isHead))
  ELSE routeContent(req, bucket, path, isHead)

\* mutant: only /index.html is a shell route, "/" goes on to the listing
route_rootIsListed(req, bucket, path, isHead) ==
  IF path = S_SLASH_INDEX_HTML
  THEN asHtml(serveFile(bucket, S_INDEX_HTML, "text/html; charset=utf-8", isHead))
  ELSE routeContent(req, bucket, path, isHead)

\* fetch from the SPA routes on, for a sanitized path
route(req, bucket, path, isHead) ==
  IF path \in SPA_ROUTES
  THEN asHtml(serveFile(bucket, S_INDEX_HTML, "text/html; charset=utf-8", isHead))
  ELSE routeContent(req, bucket, path, isHead)

\* fetch from the null check of the sanitized path on
checked(req, bucket, sanitized) ==
  IF sanitized.null
  THEN [response |->
          addSecurityHeaders(NewResponse(TextBody("Bad Request"), 400, NoHeaders), FALSE),
        ops |-> <<>>]
  ELSE route(req, bucket, sanitized.path, req.method = "HEAD")

\* mutant: the path is sanitized before the method is looked at
fetch_sanitizesFirst(req, bucket) ==
  IF sanitizePath(req.pathname).null
  THEN checked(req, bucket, PathRejected)
  ELSE IF req.method # "GET" /\ req.method # "HEAD"
  THEN [response |->
          addSecurityHeaders(
            NewResponse(TextBody("Method Not Allowed"), 405, "Allow" :> "GET, HEAD"), FALSE),
        ops |-> <<>>]
  ELSE checked(req, bucket, sanitizePath(req.pathname))

\* the response of fetch(request, env) and the bucket calls it makes
fetch(req, bucket) ==
  IF req.method # "GET" /\ req.method # "HEAD"
  THEN [response |->
          addSecurityHeaders(
            NewResponse(TextBody("Method Not Allowed"), 405, "Allow" :> "GET, HEAD"), FALSE),
        ops |-> <<>>]
  ELSE checked(req, bucket, sanitizePath(req.pathname))

-----------------------------------------------------------------------------
(* The inputs: bucket contents and requests                                 *)

\* index.html
K_index == <<"i", "n", "d", "e", "x", ".", "h", "t", "m", "l">>
\* a.js
K_asset == <<"a", ".", "j", "s">>
\* LICENSE
K_license == <<"L", "I", "C", "E", "N", "S", "E">>
\* gradle/7.6/
K_marker == <<"g", "r", "a", "d", "l", "e", "/", "7", ".", "6", "/">>
\* gradle/7.6/gradle-7.6-bin.zip
K_bin == <<"g", "r", "a", "d", "l", "e", "/", "7", ".", "6", "/", "g", "r", "a", "d", "l", "e", "-", "7", ".", "6", "-", "b", "i", "n", ".", "z", "i", "p">>
\* gradle/7.6/B.zip
K_upper == <<"g", "r", "a", "d", "l", "e", "/", "7", ".", "6", "/", "B", ".", "z", "i", "p">>
\* gradle/7.6/b.zip
K_lower == <<"g", "r", "a", "d", "l", "e", "/", "7", ".", "6", "/", "b", ".", "z", "i", "p">>
\* gradle/7.6/wrapper/w.jar
K_wrapper == <<"g", "r", "a", "d", "l", "e", "/", "7", ".", "6", "/", "w", "r", "a", "p", "p", "e", "r", "/", "w", ".", "j", "a", "r">>
\* gradle/7.6/Docs/d.txt
K_docs == <<"g", "r", "a", "d", "l", "e", "/", "7", ".", "6", "/", "D", "o", "c", "s", "/", "d", ".", "t", "x", "t">>
\* a&b/<c>"'/d>.txt
K_markup == <<"a", "&", "b", "/", "<", "c", ">", "\"", "'", "/", "d", ">", ".", "t", "x", "t">>
\* about.html
K_page == <<"a", "b", "o", "u", "t", ".", "h", "t", "m", "l">>

DATE_1 == <<"2", "0", "2", "4", "-", "0", "1", "-", "0", "2", "T", "0", "3", ":", "0", "4", ":", "0", "5", ".", "0", "0", "0", "Z">>
DATE_2 == <<"2", "0", "2", "5", "-", "1", "1", "-", "3", "0", "T", "2", "3", ":", "5", "9", ":", "5", "9", ".", "9", "9", "9", "Z">>

\* the objects a bucket may hold; index.html comes in two versions
Catalog ==
  { [key |-> K_index, size |-> 612, etag |-> "etag-index-1", body |-> "index.html v1", uploaded |-> DATE_1],
    [key |-> K_index, size |-> 700, etag |-> "etag-index-2", body |-> "index.html v2", uploaded |-> DATE_2],
    [key |-> K_asset, size |-> 0, etag |-> "etag-a.js", body |-> "a.js", uploaded |-> DATE_1],
    [key |-> K_license, size |-> 1023, etag |-> "etag-license", body |-> "LICENSE", uploaded |-> DATE_1],
    [key |-> K_marker, size |-> 0, etag |-> "etag-marker", body |-> "", uploaded |-> DATE_1],
    [key |-> K_bin, size |-> 125829120, etag |-> "etag-bin", body |-> "gradle-7.6-bin.zip", uploaded |-> DATE_2],
    [key |-> K_upper, size |-> 1536, etag |-> "etag-B", body |-> "B.zip", uploaded |-> DATE_1],
    [key |-> K_lower, size |-> 1048576, etag |-> "etag-b", body |-> "b.zip", uploaded |-> DATE_2],
    [key |-> K_wrapper, size |-> 61440, etag |-> "etag-w", body |-> "w.jar", uploaded |-> DATE_2],
    [key |-> K_docs, size |-> 12, etag |-> "etag-d", body |-> "d.txt", uploaded |-> DATE_1],
    [key |-> K_markup, size |-> 2048, etag |-> "etag-markup", body |-> "d>.txt", uploaded |-> DATE_2],
    [key |-> K_page, size |-> 340, etag |-> "etag-about", body |-> "about.html", uploaded |-> DATE_1] }

\* the most objects a bucket of the model holds
MaxObjects == 2

Buckets ==
  { b \in SUBSET Catalog :
      Cardinality(b) <= MaxObjects /\ \A o1, o2 \in b : o1.key = o2.key => o1 = o2 }

ORIGIN == <<"h", "t", "t", "p", "s", ":", "/", "/", "m", "i", "r", "r", "o", "r", ".", "e", "x", "a", "m", "p", "l", "e">>

Methods == {"GET", "HEAD", "POST", "DELETE"}

\* request paths (url.pathname, still percent-encoded) taken from the routes.
\* Every string that starts with "/" is allowed as a pathname, also those the
\* URL parser would have normalised (a literal ".." segment, a backslash).
NamedPaths ==
  { <<"/">>,
    <<"/", "i", "n", "d", "e", "x", ".", "h", "t", "m", "l">>,
    <<"/", "i", "n", "d", "e", "x", "%", "2", "e", "h", "t", "m", "l">>,
    <<"/", "a", ".", "j", "s">>,
    <<"/", "m", "i", "s", "s", "i", "n", "g", ".", "j", "s">>,
    <<"/", "L", "I", "C", "E", "N", "S", "E">>,
    <<"/", "g", "r", "a", "d", "l", "e">>,
    <<"/", "g", "r", "a", "d", "l", "e", "/">>,
    <<"/", "g", "r", "a", "d", "l", "e", "/", "7", ".", "6">>,
    <<"/", "g", "r", "a", "d", "l", "e", "/", "7", ".", "6", "/">>,
    <<"/", "g", "r", "a", "d", "l", "e", "/", "v", "7">>,
    <<"/", "g", "r", "a", "d", "l", "e", "/", "7", ".", "6", "/", "g", "r", "a", "d", "l", "e", "-", "7", ".", "6", "-", "b", "i", "n", ".", "z", "i", "p">>,
    <<"/", "g", "r", "a", "d", "l", "e", "/", "7", ".", "6", "/", "B", ".", "z", "i", "p">>,
    <<"/", "g", "r", "a", "d", "l", "e", "/", "7", ".", "6", "/", "n", "o", "n", "e", ".", "z", "i", "p">>,
    <<"/", "g", "r", "a", "d", "l", "e", "/", "7", ".", "6", "/", "w", "r", "a", "p", "p", "e", "r">>,
    <<"/", "g", "r", "a", "d", "l", "e", "/", "7", ".", "6", "/", "w", "r", "a", "p", "p", "e", "r", "/">>,
    <<"/", "a", "/", ".", ".", "/", "e", "t", "c", "/", "p", "a", "s", "s", "w", "d">>,
    <<"/", "a", "%", "2", "f", ".", ".", "%", "2", "f", "b", ".", "j", "s">>,
    <<"/", "g", "r", "a", "d", "l", "e", "/", "%", "2", "e", "%", "2", "e", "/", "a", ".", "j", "s">>,
    <<"/", "a", "%", "5", "c", "b">>,
    <<"/", "a", "%", "0", "0", "b">>,
    <<"/", "%", "z", "z">>,
    <<"/", "a", "%", "2">>,
    <<"/", "%", "f", "f">>,
    <<"/", "%", "c", "3", "%", "a", "9", ".", "j", "s">>,
    <<"/", "%", "e", "0", "%", "8", "0", "%", "8", "0">>,
    <<"/", "/", "a", ".", "j", "s">>,
    <<"/", "/", "a", "/">>,
    <<"/", "a", "%", "0", "A", "b">>,
    <<"/", "a", "b", "o", "u", "t", ".", "h", "t", "m", "l">>,
    <<"/", "a", "&", "b", "/">>,
    <<"/", "a", "&", "b", "/", "%", "3", "C", "c", "%", "3", "E", "%", "2", "2", "'", "/">>,
    <<"/", "x", "/", "g", "r", "a", "d", "l", "e", "/", "a", ".", "j", "s">>,
    <<"/", "L", "O", "G", "O", ".", "P", "n", "G">>,
    <<"/", "a", ".", "c", "o", "n", "s", "t", "r", "u", "c", "t", "o", "r">>,
    <<"/", "a", ".", "_", "_", "p", "r", "o", "t", "o", "_", "_">>,
    <<"/", "a", "%", "3", "F", "b">>,
    <<"/", "a", "%", "2", "5", "z", "z">>,
    <<"/", "d", "o", "c", "s", "%", "2", "0", "v", "2">> }

\* the pieces the other request paths are put together from
Fragments ==
  { <<"/">>, <<".">>, <<"a">>, <<"%">>, <<"%", "2", "e">>, <<"\\">> }

\* the most pieces after the leading "/"
MaxFragments == 2

RECURSIVE FragmentPaths(_)
FragmentPaths(n) ==
  IF n = 0 THEN { <<"/">> }
  ELSE LET shorter == FragmentPaths(n - 1)
       IN  shorter \cup { p \o f : p \in shorter, f \in Fragments }

RawPaths == NamedPaths \cup FragmentPaths(MaxFragments)

\* redirects: how many redirects the client has followed to make the request
Requests == [method : Methods, pathname : RawPaths, origin : {ORIGIN}, redirects : {0}]

\* the most redirects a client follows for one request
MaxRedirects == 2

NoRequest == [method |-> "", pathname |-> <<>>, origin |-> <<>>, redirects |-> 0]

-----------------------------------------------------------------------------
(* The maintenance scripts cleanup-r2.ts and deploy-site.ts: what they share *)

LF == CharOfCode(10)

\* the white space that String.prototype.trim and the pattern \s take away
IsSpace(c) ==
  c \in {" ", CharOfCode(9), LF, CharOfCode(11), CharOfCode(12), CharOfCode(13)}

RECURSIVE trimStart(_)
trimStart(s) == IF Len(s) > 0 /\ IsSpace(s[1]) THEN trimStart(Tail(s)) ELSE s

RECURSIVE trimEnd(_)
trimEnd(s) == IF Len(s) > 0 /\ IsSpace(s[Len(s)]) THEN trimEnd(DropLast(s)) ELSE s

\* line.trim()
trim(s) == trimEnd(trimStart(s))

\* s.split(/\s+/): the pieces between the runs of white space
RECURSIVE splitSpaces(_)
splitSpaces(s) ==
  IF \E i \in 1..Len(s) : IsSpace(s[i])
  THEN LET i == CHOOSE k \in 1..Len(s) : IsSpace(s[k]) /\ \A j \in 1..(k - 1) : ~IsSpace(s[j])
       IN  <<SubSeq(s, 1, i - 1)>> \o splitSpaces(trimStart(SubSeq(s, i, Len(s))))
  ELSE <<s>>

\* readIgnorePaths: the trimmed lines of the file that are neither empty nor
\* comments; no path when the file does not exist
readIgnorePaths(config) ==
  IF ~config.exists THEN <<>>
  ELSE LET lines == split(config.content, LF)
           trimmed == [i \in 1..Len(lines) |-> trim(lines[i])]
       IN  SelectSeq(trimmed, LAMBDA line : line # <<>> /\ ~startsWith(line, <<"#">>))

\* escapeShellArg: the argument between single quotes, each single quote of
\* it written '\''
RECURSIVE escapeQuotes(_)
escapeQuotes(arg) ==
  IF Len(arg) = 0 THEN <<>>
  ELSE (IF arg[1] = "'" THEN <<"'", "\\", "'", "'">> ELSE <<arg[1]>>) \o escapeQuotes(Tail(arg))

escapeShellArg(arg) == <<"'">> \o escapeQuotes(arg) \o <<"'">>

\* the argument the shell of execSync hands to the command for a word of the
\* command line: text between single quotes is taken as it is, a backslash
\* outside them quotes the next character
RECURSIVE ShellWord(_, _)
ShellWord(word, quoted) ==
  IF Len(word) = 0 THEN <<>>
  ELSE IF quoted
  THEN IF word[1] = "'" THEN ShellWord(Tail(word), FALSE)
       ELSE <<word[1]>> \o ShellWord(Tail(word), TRUE)
  ELSE IF word[1] = "'" THEN ShellWord(Tail(word), TRUE)
  ELSE IF word[1] = "\\" /\ Len(word) >= 2
  THEN <<word[2]>> \o ShellWord(Tail(Tail(word)), FALSE)
  ELSE <<word[1]>> \o ShellWord(Tail(word), FALSE)

\* CONFIG.bucketName
BUCKET_NAME == <<"m", "i", "r", "r", "o", "r">>

\* process.exit(code) ends a script; -1 stands for a script that has not exited
Exited(script, code) == [script EXCEPT !.pc = "exited", !.exitCode = code]

-----------------------------------------------------------------------------
(* cleanup-r2.ts                                                            *)

\* the lines of aws s3 ls --recursive for the keys: date, time, size (padded
\* with spaces to ten characters) and key of each object,
\* "2024-01-01 12:00:00       1234 path/to/file"
RECURSIVE LsLines(_, _)
LsLines(bucket, keys) ==
  IF Len(keys) = 0 THEN <<>>
  ELSE LET o == ObjectAt(bucket, Head(keys))
           size == NumberToString(o.size)
           padded == [i \in 1..(10 - Len(size)) |-> " "] \o size
       IN  Take(o.uploaded, 10) \o <<" ">> \o SubSeq(o.uploaded, 12, 19) \o <<" ">>
             \o padded \o <<" ">> \o o.key \o <<LF>> \o LsLines(bucket, Tail(keys))

\* the output of aws s3 ls s3://mirror/ --recursive: the objects in key order
LsOutput(bucket) == LsLines(bucket, InKeyOrder({o.key : o \in bucket}))

\* listObjects, from the output of the command: an empty line and a line of
\* fewer than four fields give no key, the key of another line is its fields
\* from the fourth on
listObjects(output) ==
  LET lines == split(output, LF)
      parsed == [i \in 1..Len(lines) |-> splitSpaces(trim(lines[i]))]
      kept == SelectSeq(parsed, LAMBDA parts : Len(parts) >= 4)
  IN  [i \in 1..Len(kept) |-> join(SubSeq(kept[i], 4, Len(kept[i])), " ")]

shouldIgnore(key, ignorePaths) ==
  \E i \in 1..Len(ignorePaths) : startsWith(key, ignorePaths[i])

S3_URI == <<"s", "3", ":", "/", "/">> \o BUCKET_NAME \o <<"/">>

\* deleteObject: the word of the command line that names the object
deleteObject(key) == escapeShellArg(S3_URI \o key)

\* aws s3 rm <uri>: the bucket without the object at the key of the uri
S3Rm(bucket, word) ==
  BUCKET_after(bucket, [op |-> "delete", key |-> SliceFrom(ShellWord(word, FALSE), Len(S3_URI)),
                        delimiter |-> ""])

\* the locals of main
NoCleanup ==
  [pc |-> "idle", exitCode |-> -1, ignorePaths |-> <<>>, objects |-> <<>>, index |-> 0,
   deletedCount |-> 0, skippedCount |-> 0, listed |-> {}, deleteCalls |-> <<>>]

-----------------------------------------------------------------------------
(* deploy-site.ts                                                           *)

\* CONFIG.distDir
DIST_DIR == <<"/", "s", "r", "v", "/", "m", "i", "r", "r", "o", "r", "/", "d", "i", "s", "t">>


CONTENT_TYPES ==
  ( <<".", "h", "t", "m", "l">> :> "text/html; charset=utf-8" ) @@
  ( <<".", "c", "s", "s">> :> "text/css; charset=utf-8" ) @@
  ( <<".", "j", "s">> :> "application/javascript; charset=utf-8" ) @@
  ( <<".", "j", "s", "o", "n">> :> "application/json" ) @@
  ( <<".", "s", "v", "g">> :> "image/svg+xml" ) @@
  ( <<".", "p", "n", "g">> :> "image/png" ) @@
  ( <<".", "j", "p", "g">> :> "image/jpeg" ) @@
  ( <<".", "j", "p", "e", "g">> :> "image/jpeg" ) @@
  ( <<".", "i", "c", "o">> :> "image/x-icon" )

\* getContentType of deploy-site.ts; substring(-1) is the whole file name
deploy_getContentType(filename) ==
  LET ext == toLowerCase(SliceFrom(filename, IF lastIndexOf(filename, ".") < 0 THEN 0
                                             ELSE lastIndexOf(filename, ".")))
  IN  IF ext \in DOMAIN CONTENT_TYPES THEN CONTENT_TYPES[ext]
      ELSE "application/octet-stream"

\* the entries of a directory: regular files, directories and other things
File(name, size, body) == [name |-> name, type |-> "file", size |-> size, body |-> body]
Directory(name, entries) == [name |-> name, type |-> "directory", entries |-> entries]
Other(name) == [name |-> name, type |-> "other"]

\* getAllFiles: the paths of the regular files under dir, as readdirSync and
\* statSync give them
RECURSIVE getAllFiles(_, _)
getAllFiles(dir, entries) ==
  IF Len(entries) = 0 THEN <<>>
  ELSE (IF Head(entries).type = "directory"
        THEN getAllFiles(dir \o <<"/">> \o Head(entries).name, Head(entries).entries)
        ELSE IF Head(entries).type = "file" THEN <<dir \o <<"/">> \o Head(entries).name>>
        ELSE <<>>)
       \o getAllFiles(dir, Tail(entries))

\* the regular file at a path under dir
RECURSIVE FileAt(_, _, _)
FileAt(dir, entries, path) ==
  LET entry == CHOOSE e \in {entries[i] : i \in 1..Len(entries)} : startsWith(path \o <<"/">>, dir \o <<"/">> \o e.name \o <<"/">>)
  IN  IF entry.type = "directory"
      THEN FileAt(dir \o <<"/">> \o entry.name, entry.entries, path)
      ELSE entry

\* path.relative(from, to) for a path to below the directory from
relative(from, to) == SliceFrom(to, Len(from) + 1)

\* wrangler r2 object put <bucket>/<key> --file=<file>: the bucket with the
\* file stored at the key, uploaded at 2026-02-03T04:05:06.000Z
R2Put(bucket, word, file) ==
  BUCKET_after(bucket,
    [op |-> "put", key |-> SliceFrom(ShellWord(word, FALSE), Len(BUCKET_NAME) + 1),
     delimiter |-> "",
     object |-> [key |-> SliceFrom(ShellWord(word, FALSE), Len(BUCKET_NAME) + 1),
                 size |-> file.size, etag |-> "etag-of-" \o file.body, body |-> file.body,
                 uploaded |->
                   <<"2", "0", "2", "6", "-", "0", "2", "-", "0", "3", "T", "0", "4", ":", "0", "5", ":", "0", "6", ".", "0", "0", "0", "Z">>]])

\* the locals of main and of uploadSiteFiles, and the commands run so far
NoDeploy ==
  [pc |-> "idle", exitCode |-> -1, ignorePaths |-> <<>>, files |-> <<>>, index |-> 0,
   uploadedCount |-> 0, commands |-> <<>>]

\* mutant: a failed upload is logged and the loop goes on
afterUpload_continuesOnError(d, key, ok) ==
  [d EXCEPT !.commands = Append(@, [command |-> "put", key |-> key, ok |-> ok]),
            !.index = @ + 1,
            !.uploadedCount = IF ok THEN @ + 1 ELSE @]

\* uploadSiteFiles after the exec of one file: the next file, or the error
\* rethrown to main, which exits with code 1
afterUpload(d, key, ok) ==
  IF ok
  THEN [d EXCEPT !.commands = Append(@, [command |-> "put", key |-> key, ok |-> TRUE]),
                 !.index = @ + 1, !.uploadedCount = @ + 1]
  ELSE Exited([d EXCEPT !.commands = Append(@, [command |-> "put", key |-> key, ok |-> FALSE])], 1)

-----------------------------------------------------------------------------
(* The inputs of the scripts                                                *)


\* the objects the bucket may hold when cleanup-r2.ts runs, "site/a  b.js",
\* "site/a b.js" and "it's.js" among them
CleanupCatalog ==
  { [key |-> K_index, size |-> 612, etag |-> "etag-index-1", body |-> "index.html v1", uploaded |-> DATE_1],
    [key |-> K_asset, size |-> 0, etag |-> "etag-a.js", body |-> "a.js", uploaded |-> DATE_1],
    [key |-> K_bin, size |-> 125829120, etag |-> "etag-bin", body |-> "gradle-7.6-bin.zip", uploaded |-> DATE_2],
    [key |-> <<"s", "i", "t", "e", "/", "a", " ", " ", "b", ".", "j", "s">>, size |-> 77, etag |-> "etag-spaced", body |-> "a  b.js", uploaded |-> DATE_2],
    [key |-> <<"s", "i", "t", "e", "/", "a", " ", "b", ".", "j", "s">>, size |-> 78, etag |-> "etag-space", body |-> "a b.js", uploaded |-> DATE_1],
    [key |-> <<"i", "t", "'", "s", ".", "j", "s">>, size |-> 9, etag |-> "etag-quote", body |-> "it's.js", uploaded |-> DATE_2] }

CleanupBuckets == {b \in SUBSET CleanupCatalog : Cardinality(b) <= MaxObjects}

\* deploy-config.txt: absent, the file of the README, one with a comment, an
\* empty line and spaces around a path, and one whose path is no directory
ConfigFiles ==
  { [exists |-> FALSE, content |-> <<>>] } \cup
  { [exists |-> TRUE, content |-> content] : content \in {
    (<<"g", "r", "a", "d", "l", "e", "/", LF, "a", "n", "o", "t", "h", "e", "r", "-", "d", "i", "r", "/", LF>>),
    (<<"#", " ", "p", "r", "e", "s", "e", "r", "v", "e", "d", LF, LF, " ", " ", "g", "r", "a", "d", "l", "e", "/", "7", ".", "6", "/", " ", " ", LF, "s", "i", "t", "e", "/", LF>>),
    (<<"s", "i", "t", "e", "/", "a", " ", "b">>) } }


\* ../dist: absent, empty, and three builds: index.html alone; assets/app.js,
\* "assets/it's a.css" and index.html; assets/img/logo.svg, assets/app.js, the
\* socket build.sock and index.html
DistDirs ==
  { [exists |-> FALSE, entries |-> <<>>] } \cup
  { [exists |-> TRUE, entries |-> entries] : entries \in {
    (<<>>),
    (<<File(<<"i", "n", "d", "e", "x", ".", "h", "t", "m", "l">>, 700, "index.html v2")>>),
    (<<Directory(<<"a", "s", "s", "e", "t", "s">>, <<File(<<"a", "p", "p", ".", "j", "s">>, 4096, "app.js"), File(<<"i", "t", "'", "s", " ", "a", ".", "c", "s", "s">>, 120, "it's a.css")>>),
           File(<<"i", "n", "d", "e", "x", ".", "h", "t", "m", "l">>, 700, "index.html v2")>>),
    (<<Directory(<<"a", "s", "s", "e", "t", "s">>, <<Directory(<<"i", "m", "g">>, <<File(<<"l", "o", "g", "o", ".", "s", "v", "g">>, 300, "logo.svg")>>),
                               File(<<"a", "p", "p", ".", "j", "s">>, 4096, "app.js")>>),
           Other(<<"b", "u", "i", "l", "d", ".", "s", "o", "c", "k">>),
           File(<<"i", "n", "d", "e", "x", ".", "h", "t", "m", "l">>, 700, "index.html v2")>>) } }

\* the objects the bucket may hold when deploy-site.ts runs
DeployBuckets ==
  SUBSET { [key |-> K_index, size |-> 612, etag |-> "etag-index-1", body |-> "index.html v1", uploaded |-> DATE_1],
           [key |-> K_bin, size |-> 125829120, etag |-> "etag-bin", body |-> "gradle-7.6-bin.zip", uploaded |-> DATE_2] }

\* the files of a run of the worker, which reads none
NoFiles ==
  [config |-> [exists |-> FALSE, content |-> <<>>], dist |-> [exists |-> FALSE, entries |-> <<>>]]

-----------------------------------------------------------------------------
(* The inputs of formatSize                                                 *)

\* the most digits (base 1024) of a byte count
MaxSizeDigits == 6

\* A Number holds an integer exactly up to 2^53: the counts have at most five
\* digits that are not trailing zeros. 1023 and 1048575 are the counts just
\* below a unit.
Sizes ==
  { <<1023>>, <<1023, 1023>> } \cup
  UNION { { b \in [1..n -> {0, 1, 256, 512, 1000}] :
              (n > 1 => b[1] # 0) /\ \A k \in 6..n : b[k] = 0 } : n \in 1..MaxSizeDigits }

NoRender == [pc |-> "idle", bytes |-> <<0>>, text |-> <<>>]

-----------------------------------------------------------------------------
(* The inputs of the worker when it handles several requests at once        *)

\* the most requests in flight at the same time
MaxInFlight == 2

\* one request of each outcome: the shell, an asset, a file, a redirect, a
\* listing, a rejected path; POST for a method that is not allowed
ConcurrentRequests ==
  [method : {"GET", "HEAD", "POST"},
   pathname : { <<"/">>, <<"/">> \o K_asset, <<"/">> \o K_license,
                <<"/", "g", "r", "a", "d", "l", "e">>,
                <<"/", "g", "r", "a", "d", "l", "e", "/">>,
                <<"/", "%", "z", "z">> },
   origin : {ORIGIN}, redirects : {0}]

ConcurrentBuckets ==
  { b \in Buckets : \A o \in b : o.key \in {K_index, K_asset, K_license, K_bin} }

\* no request is being handled
NoneInFlight ==
  [s \in 1..MaxInFlight |->
     [pc |-> "waiting", request |-> NoRequest, response |-> NoResponse, storeOps |-> <<>>]]

-----------------------------------------------------------------------------
(* The state machine: the runtime hands a request to fetch, fetch answers   *)

Init ==
  /\ store \in Buckets
  /\ pc = "waiting"
  /\ request = NoRequest
  /\ response = NoResponse
  /\ storeOps = <<>>
  /\ fs = NoFiles
  /\ cleanup = NoCleanup
  /\ deploy = NoDeploy
  /\ render = NoRender
  /\ inflight = NoneInFlight

\* the runtime receives a request and calls the handler
Receive(req) ==
  /\ pc = "waiting"
  /\ pc' = "handling"
  /\ request' = req
  /\ response' = NoResponse
  /\ storeOps' = <<>>
  /\ UNCHANGED <<store, fs, cleanup, deploy, render, inflight>>

\* the handler's result becomes the response of the request
Return(r) ==
  /\ response' = r.response
  /\ storeOps' = r.ops
  /\ store' = BucketAfter(store, r.ops)
  /\ pc' = IF r.response = TypeError THEN "failed" ELSE "responded"

\* the handler runs to its return, or to the exception it does not catch
Fetch ==
  /\ pc = "handling"
  /\ Return(fetch(request, store))
  /\ UNCHANGED <<request, fs, cleanup, deploy, render, inflight>>

\* the runtime sends the response, or its own error page (status 500) when the
\* handler threw; the worker keeps nothing of the request
Send ==
  /\ pc \in {"responded", "failed"}
  /\ pc' = "waiting"
  /\ request' = NoRequest
  /\ response' = NoResponse
  /\ storeOps' = <<>>
  /\ UNCHANGED <<store, fs, cleanup, deploy, render, inflight>>

\* the client follows a redirect: it parses the Location and requests that URL
Follow ==
  /\ pc = "responded" /\ response.status = 301
  /\ request.redirects < MaxRedirects
  /\ pc' = "handling"
  /\ request' = [request EXCEPT
                   !.pathname = URL_pathname(SliceFrom(response.headers["Location"],
                                                       Len(request.origin))),
                   !.redirects = @ + 1]
  /\ response' = NoResponse
  /\ storeOps' = <<>>
  /\ UNCHANGED <<store, fs, cleanup, deploy, render, inflight>>

Next ==
  \/ \E req \in Requests : Receive(req)
  \/ Fetch
  \/ Send
  \/ Follow

Spec == Init /\ [][Next]_vars

\* a response has been returned for the request in the state
Responded == pc = "responded"

-----------------------------------------------------------------------------
(* cleanup-r2.ts: main                                                      *)

InitCleanup ==
  /\ store \in CleanupBuckets
  /\ fs \in [config : ConfigFiles, dist : {NoFiles.dist}]
  /\ cleanup = [NoCleanup EXCEPT !.pc = "checkRequirements"]
  /\ deploy = NoDeploy
  /\ render = NoRender
  /\ inflight = NoneInFlight
  /\ pc = "waiting"
  /\ request = NoRequest
  /\ response = NoResponse
  /\ storeOps = <<>>

\* checkRequirements: the AWS CLI answers and CLOUDFLARE_ACCOUNT_ID is set, or
\* main exits with code 1
CheckRequirements ==
  /\ cleanup.pc = "checkRequirements"
  /\ \E awsFound \in BOOLEAN, accountIdSet \in BOOLEAN :
       cleanup' = IF awsFound /\ accountIdSet
                  THEN [cleanup EXCEPT !.pc = "readIgnorePaths"]
                  ELSE Exited(cleanup, 1)
  /\ UNCHANGED <<store, fs, deploy, pc, request, response, storeOps, render, inflight>>

ReadIgnorePaths ==
  /\ cleanup.pc = "readIgnorePaths"
  /\ cleanup' = [cleanup EXCEPT !.pc = "listObjects",
                                !.ignorePaths = readIgnorePaths(fs.config)]
  /\ UNCHANGED <<store, fs, deploy, pc, request, response, storeOps, render, inflight>>

\* listObjects: the command lists the bucket, or fails and main exits with 1
ListObjects ==
  /\ cleanup.pc = "listObjects"
  /\ \E ok \in BOOLEAN :
       cleanup' = IF ok
                  THEN [cleanup EXCEPT !.pc = "loop",
                                       !.objects = listObjects(LsOutput(store)),
                                       !.index = 1,
                                       !.listed = {o.key : o \in store}]
                  ELSE Exited(cleanup, 1)
  /\ UNCHANGED <<store, fs, deploy, pc, request, response, storeOps, render, inflight>>

\* one turn of the loop of main: the key is skipped, or deleteObject runs aws
\* s3 rm for it; when the command fails main exits with code 1
ProcessKey ==
  /\ cleanup.pc = "loop"
  /\ cleanup.index <= Len(cleanup.objects)
  /\ IF shouldIgnore(cleanup.objects[cleanup.index], cleanup.ignorePaths)
     THEN /\ cleanup' = [cleanup EXCEPT !.index = @ + 1, !.skippedCount = @ + 1]
          /\ UNCHANGED store
     ELSE \E ok \in BOOLEAN :
            /\ cleanup' =
                 IF ok
                 THEN [cleanup EXCEPT !.index = @ + 1, !.deletedCount = @ + 1,
                         !.deleteCalls = Append(@, cleanup.objects[cleanup.index])]
                 ELSE Exited([cleanup EXCEPT
                         !.deleteCalls = Append(@, cleanup.objects[cleanup.index])], 1)
            /\ store' = IF ok THEN S3Rm(store, deleteObject(cleanup.objects[cleanup.index]))
                        ELSE store
  /\ UNCHANGED <<fs, deploy, pc, request, response, storeOps, render, inflight>>

\* the loop is over: process.exit(0)
CleanupComplete ==
  /\ cleanup.pc = "loop"
  /\ cleanup.index > Len(cleanup.objects)
  /\ cleanup' = Exited(cleanup, 0)
  /\ UNCHANGED <<store, fs, deploy, pc, request, response, storeOps, render, inflight>>

NextCleanup ==
  \/ CheckRequirements
  \/ ReadIgnorePaths
  \/ ListObjects
  \/ ProcessKey
  \/ CleanupComplete

SpecCleanup == InitCleanup /\ [][NextCleanup]_vars

-----------------------------------------------------------------------------
(* deploy-site.ts: main                                                     *)

InitDeploy ==
  /\ store \in DeployBuckets
  /\ fs \in [config : ConfigFiles, dist : DistDirs]
  /\ deploy = [NoDeploy EXCEPT !.pc = "readDeployConfig"]
  /\ cleanup = NoCleanup
  /\ render = NoRender
  /\ inflight = NoneInFlight
  /\ pc = "waiting"
  /\ request = NoRequest
  /\ response = NoResponse
  /\ storeOps = <<>>

\* readDeployConfig parses the file as readIgnorePaths of cleanup-r2.ts does
ReadDeployConfig ==
  /\ deploy.pc = "readDeployConfig"
  /\ deploy' = [deploy EXCEPT !.pc = "uploadSiteFiles",
                              !.ignorePaths = readIgnorePaths(fs.config)]
  /\ UNCHANGED <<store, fs, cleanup, pc, request, response, storeOps, render, inflight>>

\* uploadSiteFiles up to its loop: without ../dist it throws and main exits
\* with code 1
UploadSiteFiles ==
  /\ deploy.pc = "uploadSiteFiles"
  /\ deploy' = IF ~fs.dist.exists THEN Exited(deploy, 1)
               ELSE [deploy EXCEPT !.pc = "upload",
                                   !.files = getAllFiles(DIST_DIR, fs.dist.entries),
                                   !.index = 1]
  /\ UNCHANGED <<store, fs, cleanup, pc, request, response, storeOps, render, inflight>>

\* one turn of the loop of uploadSiteFiles: wrangler r2 object put succeeds
\* and the object is written, or it fails, having written the object or not
UploadFile ==
  /\ deploy.pc = "upload"
  /\ deploy.index <= Len(deploy.files)
  /\ \E ok \in BOOLEAN, written \in BOOLEAN :
       /\ ok => written
       /\ deploy' = afterUpload(deploy, relative(DIST_DIR, deploy.files[deploy.index]), ok)
       /\ store' = IF written
                   THEN R2Put(store,
                              escapeShellArg(BUCKET_NAME \o <<"/">>
                                             \o relative(DIST_DIR, deploy.files[deploy.index])),
                              FileAt(DIST_DIR, fs.dist.entries, deploy.files[deploy.index]))
                   ELSE store
  /\ UNCHANGED <<fs, cleanup, pc, request, response, storeOps, render, inflight>>

\* uploadSiteFiles returns the count
UploadComplete ==
  /\ deploy.pc = "upload"
  /\ deploy.index > Len(deploy.files)
  /\ deploy' = [deploy EXCEPT !.pc = "deployWorker"]
  /\ UNCHANGED <<store, fs, cleanup, pc, request, response, storeOps, render, inflight>>

\* deployWorker: wrangler deploy succeeds and main exits with code 0, or it
\* fails and main exits with code 1
DeployWorker ==
  /\ deploy.pc = "deployWorker"
  /\ \E ok \in BOOLEAN :
       deploy' = Exited([deploy EXCEPT !.commands =
                           Append(@, [command |-> "deploy", key |-> <<>>, ok |-> ok])],
                        IF ok THEN 0 ELSE 1)
  /\ UNCHANGED <<store, fs, cleanup, pc, request, response, storeOps, render, inflight>>

NextDeploy ==
  \/ ReadDeployConfig
  \/ UploadSiteFiles
  \/ UploadFile
  \/ UploadComplete
  \/ DeployWorker

SpecDeploy == InitDeploy /\ [][NextDeploy]_vars

-----------------------------------------------------------------------------
(* formatSize on its own                                                    *)

\* a caller passes a byte count to formatSize
InitFormatSize ==
  /\ render \in {[NoRender EXCEPT !.pc = "called", !.bytes = bytes] : bytes \in Sizes}
  /\ inflight = NoneInFlight
  /\ store = {}
  /\ fs = NoFiles
  /\ cleanup = NoCleanup
  /\ deploy = NoDeploy
  /\ pc = "waiting"
  /\ request = NoRequest
  /\ response = NoResponse
  /\ storeOps = <<>>

\* formatSize returns its text
FormatSize ==
  /\ render.pc = "called"
  /\ render' = [render EXCEPT !.pc = "returned", !.text = formatSize(render.bytes)]
  /\ UNCHANGED <<store, fs, cleanup, deploy, pc, request, response, storeOps, inflight>>

SpecFormatSize == InitFormatSize /\ [][FormatSize]_vars

-----------------------------------------------------------------------------
(* The worker with several requests in flight: the runtime starts a handler *)
(* for each request, and a handler that awaits lets the others run          *)

InitConcurrent ==
  /\ store \in ConcurrentBuckets
  /\ inflight = NoneInFlight
  /\ pc = "waiting"
  /\ request = NoRequest
  /\ response = NoResponse
  /\ storeOps = <<>>
  /\ fs = NoFiles
  /\ cleanup = NoCleanup
  /\ deploy = NoDeploy
  /\ render = NoRender

\* the runtime calls fetch for a request while others are being handled
Accept(s, req) ==
  /\ inflight[s].pc = "waiting"
  /\ inflight' = [inflight EXCEPT ![s].pc = "handling", ![s].request = req]
  /\ UNCHANGED <<store, pc, request, response, storeOps, fs, cleanup, deploy, render>>

\* the handler of slot s makes its bucket call and returns, or throws
Handle(s) ==
  /\ inflight[s].pc = "handling"
  /\ inflight' = [inflight EXCEPT
       ![s].response = fetch(inflight[s].request, store).response,
       ![s].storeOps = fetch(inflight[s].request, store).ops,
       ![s].pc = IF fetch(inflight[s].request, store).response = TypeError
                 THEN "failed" ELSE "responded"]
  /\ store' = BucketAfter(store, fetch(inflight[s].request, store).ops)
  /\ UNCHANGED <<pc, request, response, storeOps, fs, cleanup, deploy, render>>

\* the runtime sends the response of slot s
Deliver(s) ==
  /\ inflight[s].pc \in {"responded", "failed"}
  /\ inflight' = [inflight EXCEPT ![s] = NoneInFlight[s]]
  /\ UNCHANGED <<store, pc, request, response, storeOps, fs, cleanup, deploy, render>>

NextConcurrent ==
  \/ \E s \in DOMAIN inflight, req \in ConcurrentRequests : Accept(s, req)
  \/ \E s \in DOMAIN inflight : Handle(s)
  \/ \E s \in DOMAIN inflight : Deliver(s)

SpecConcurrent == InitConcurrent /\ [][NextConcurrent]_vars

-----------------------------------------------------------------------------
(* Vocabulary of the properties                                             *)

P_gradle_76 == <<"/", "g", "r", "a", "d", "l", "e", "/", "7", ".", "6">>
P_gradle_76_dir == <<"/", "g", "r", "a", "d", "l", "e", "/", "7", ".", "6", "/">>
P_gradle_v7 == <<"/", "g", "r", "a", "d", "l", "e", "/", "v", "7">>
P_missing_js == <<"/", "m", "i", "s", "s", "i", "n", "g", ".", "j", "s">>
P_encoded_traversal == <<"/", "a", "%", "2", "f", ".", ".", "%", "2", "f", "b", ".", "j", "s">>
P_bad_escape == <<"/", "%", "z", "z">>
N_wrapper == <<"w", "r", "a", "p", "p", "e", "r">>
N_bin == <<"g", "r", "a", "d", "l", "e", "-", "7", ".", "6", "-", "b", "i", "n", ".", "z", "i", "p">>
N_upper == <<"B", ".", "z", "i", "p">>

HeaderIs(name, value) ==
  name \in DOMAIN response.headers /\ response.headers[name] = value

IsGetOrHead == request.method \in {"GET", "HEAD"}

\* the request path as the handler sees it after sanitizePath
Sanitized == sanitizePath(request.pathname)

\* the keys and prefixes of the bucket calls of the request
OpKeys == {storeOps[i].key : i \in 1..Len(storeOps)}

\* p has a "/"-delimited segment equal to ".."
HasDotDotSegment(p) ==
  \E i \in 1..(Len(p) - 1) :
    /\ p[i] = "." /\ p[i + 1] = "."
    /\ (i = 1 \/ p[i - 1] = "/")
    /\ (i + 1 = Len(p) \/ p[i + 2] = "/")

HasChar(p, c) == \E i \in 1..Len(p) : p[i] = c

\* some "%" of p is not followed by two hexadecimal digits
HasInvalidEscape(p) ==
  \E i \in 1..Len(p) :
    p[i] = "%" /\ ~(i + 2 <= Len(p) /\ IsHexDigit(p[i + 1]) /\ IsHexDigit(p[i + 2]))

\* p ends in a dot followed by one or more letters or digits
EndsInDottedExtension(p) ==
  \E n \in 1..(Len(p) - 1) :
    p[Len(p) - n] = "." /\ \A j \in (Len(p) - n + 1)..Len(p) : IsAlnum(p[j])

\* the number a string of decimal digits writes
RECURSIVE DecimalValue(_)
DecimalValue(s) ==
  IF Len(s) = 0 THEN 0
  ELSE 10 * DecimalValue(DropLast(s)) + (CHOOSE d \in 0..9 : Printable[17 + d] = s[Len(s)])

\* the response is a rendered directory listing
IsListing == Responded /\ response.status = 200 /\ response.body.kind = "html"

\* the texts of the listing's rows of one kind, in the order rendered
RowTexts(kind) ==
  LET rows == SelectSeq(response.body.doc.rows, LAMBDA r : r.kind = kind)
  IN  [i \in 1..Len(rows) |-> rows[i].text]

Range(seq) == {seq[i] : i \in 1..Len(seq)}

\* the prefix the listing was asked for
ListedPrefix == SliceFrom(Sanitized.path, 1)

\* the keys of the bucket under prefix P, without P
Remainders(P) == {SliceFrom(o.key, Len(P)) : o \in {x \in store : startsWith(x.key, P)}}

\* the common prefixes list returns for prefix P: P, a segment and the separator
CommonPrefixes(P) ==
  {P \o Take(r, CHOOSE i \in 1..Len(r) : r[i] = "/" /\ \A j \in 1..(i - 1) : r[j] # "/") :
     r \in {x \in Remainders(P) : HasChar(x, "/")}}

\* the remainders of the object keys list returns for prefix P
ListedObjectRemainders(P) == {r \in Remainders(P) : ~HasChar(r, "/")}

\* a is not before b when compared without regard to case
NotLessIgnoringCase(a, b) == localeCompare(toLowerCase(a), toLowerCase(b)) >= 0

Descending(seq) == \A i \in 1..(Len(seq) - 1) : NotLessIgnoringCase(seq[i], seq[i + 1])

-----------------------------------------------------------------------------
(* Properties                                                               *)

\* C1: every response of the fetch handler, whatever the method, the path and
\* the bucket, carries X-Content-Type-Options: nosniff, X-Frame-Options: DENY
\* and Referrer-Policy: no-referrer.
C1_SecurityHeadersOnEveryResponse ==
  Responded =>
    /\ HeaderIs("X-Content-Type-Options", "nosniff")
    /\ HeaderIs("X-Frame-Options", "DENY")
    /\ HeaderIs("Referrer-Policy", "no-referrer")

C1_Witness ==
  /\ Responded /\ response.status = 404
  /\ HeaderIs("X-Content-Type-Options", "nosniff")
  /\ HeaderIs("X-Frame-Options", "DENY")
  /\ HeaderIs("Referrer-Policy", "no-referrer")

\* the case of C2: GET /gradle/7.6, no object at gradle/7.6, objects under gradle/7.6/
C2_Case ==
  /\ Responded /\ request.method = "GET" /\ request.pathname = P_gradle_76
  /\ ~HasObject(store, SliceFrom(P_gradle_76, 1))
  /\ \E o \in store : startsWith(o.key, SliceFrom(P_gradle_76_dir, 1))

\* C2 as stated: in that case the response is a 301 redirect whose Location is
\* the origin followed by /gradle/7.6/.
C2_RedirectsVersionDirectory ==
  C2_Case =>
    response.status = 301 /\ HeaderIs("Location", request.origin \o P_gradle_76_dir)

\* C2 amended: GET /gradle/7.6 in that case is answered 404 Not Found with no
\* Location, because ".6" matches the dotted-extension pattern; the 301 to
\* origin + path + "/" is the answer to a missing key whose path has no dotted
\* extension, such as GET /gradle/v7.
C2_DottedVersionIsNotFound ==
  /\ C2_Case =>
       /\ response.status = 404
       /\ response.body = TextBody("Not Found")
       /\ "Location" \notin DOMAIN response.headers
       /\ storeOps = <<GetOp(SliceFrom(P_gradle_76, 1))>>
  /\ (/\ Responded /\ request.method = "GET" /\ request.pathname = P_gradle_v7
      /\ ~HasObject(store, SliceFrom(P_gradle_v7, 1)))
     => response.status = 301
        /\ HeaderIs("Location", request.origin \o P_gradle_v7 \o <<"/">>)

C2_Witness == C2_Case /\ response.status = 404

\* C3: a request path whose decoded form has a segment "..", a null character
\* or a backslash is rejected by sanitizePath, a GET or HEAD for it is answered
\* 400 without a bucket call, and no key or prefix of a bucket call has a
\* segment "..".
C3_UnsafePathRejected ==
  /\ (/\ pc \in {"handling", "responded"}
      /\ decodeURIComponent(request.pathname).ok
      /\ LET decoded == decodeURIComponent(request.pathname).value
         IN  HasDotDotSegment(decoded) \/ HasChar(decoded, NUL) \/ HasChar(decoded, "\\"))
     => /\ Sanitized.null
        /\ (Responded /\ IsGetOrHead) => (response.status = 400 /\ storeOps = <<>>)
  /\ \A k \in OpKeys : ~HasDotDotSegment(k)

C3_Witness ==
  /\ Responded /\ request.method = "GET" /\ request.pathname = P_encoded_traversal
  /\ HasDotDotSegment(decodeURIComponent(request.pathname).value)
  /\ response.status = 400 /\ storeOps = <<>>

\* C4: a request path with an invalid percent-escape is rejected by
\* sanitizePath, and a GET or HEAD for it is answered 400 without a bucket call.
C4_MalformedEscapeRejected ==
  (pc \in {"handling", "responded"} /\ HasInvalidEscape(request.pathname))
    => /\ Sanitized.null
       /\ (Responded /\ IsGetOrHead) => (response.status = 400 /\ storeOps = <<>>)

C4_Witness ==
  /\ Responded /\ request.method = "HEAD" /\ request.pathname = P_bad_escape
  /\ response.status = 400 /\ storeOps = <<>>

\* the case of C5: GET or HEAD, the sanitized path ends in a dotted extension,
\* has no "/gradle/", is not /index.html, and the bucket has no object at its key
C5_Case ==
  /\ Responded /\ IsGetOrHead /\ ~Sanitized.null
  /\ EndsInDottedExtension(Sanitized.path)
  /\ ~includes(Sanitized.path, S_SLASH_GRADLE_SLASH)
  /\ Sanitized.path # S_SLASH_INDEX_HTML
  /\ ~HasObject(store, SliceFrom(Sanitized.path, 1))

\* C5: in that case the response is 404 with the body "Not Found"; the key
\* index.html is not looked up and the response is no redirect.
C5_MissingAssetIsNotFound ==
  C5_Case =>
    /\ response.status = 404
    /\ response.body = TextBody("Not Found")
    /\ S_INDEX_HTML \notin OpKeys
    /\ "Location" \notin DOMAIN response.headers

C5_Witness ==
  C5_Case /\ request.pathname = P_missing_js /\ HasObject(store, S_INDEX_HTML)
  /\ response.status = 404

\* the case of C6: GET of "/" or "/index.html"
C6_Case ==
  /\ Responded /\ request.method = "GET" /\ ~Sanitized.null
  /\ Sanitized.path \in { <<"/">>, S_SLASH_INDEX_HTML }

\* C6: in that case the handler looks up exactly the key index.html and returns
\* the body of the object there, and every bucket with the same object at
\* index.html gets the same response, whatever else it holds.
C6_ShellIndependentOfOtherKeys ==
  C6_Case =>
    /\ storeOps = <<GetOp(S_INDEX_HTML)>>
    /\ HasObject(store, S_INDEX_HTML) =>
         /\ response.status = 200
         /\ response.body = StreamBody(ObjectAt(store, S_INDEX_HTML).body)
    /\ \A other \in Buckets :
         ({o \in other : o.key = S_INDEX_HTML} = {o \in store : o.key = S_INDEX_HTML})
           => fetch(request, other).response = response

C6_Witness ==
  /\ C6_Case /\ request.pathname = S_SLASH_INDEX_HTML
  /\ HasObject(store, S_INDEX_HTML) /\ HasObject(store, K_asset)
  /\ response.status = 200

\* C7: a HEAD request never makes the body-returning get call, and when its
\* head call finds the object (shell, asset or file) the response's
\* Content-Length is the size that call reports.
C7_HeadNeverReadsBody ==
  (Responded /\ request.method = "HEAD") =>
    \A i \in 1..Len(storeOps) :
      /\ storeOps[i].op # "get"
      /\ (storeOps[i].op = "head" /\ HasObject(store, storeOps[i].key)) =>
           /\ response.status = 200
           /\ "Content-Length" \in DOMAIN response.headers
           /\ DecimalValue(response.headers["Content-Length"])
                = BUCKET_head(store, storeOps[i].key).size

C7_Witness ==
  /\ Responded /\ request.method = "HEAD" /\ request.pathname = <<"/">>
  /\ storeOps = <<HeadOp(S_INDEX_HTML)>>
  /\ response.status = 200
  /\ HeaderIs("Content-Length", <<"6", "1", "2">>)

\* C8 as stated: each directory entry of a listing is a common prefix without
\* the queried prefix and without the trailing separator ("wrapper").
C8_DirectoryNamesWithoutSeparator ==
  IsListing =>
    /\ Range(RowTexts("dir"))
         = {escapeHtml(DropLast(SliceFrom(cp, Len(ListedPrefix)))) : cp \in CommonPrefixes(ListedPrefix)}
    /\ Len(RowTexts("dir")) = Cardinality(CommonPrefixes(ListedPrefix))

\* C8 amended: each directory entry of a listing is a common prefix without the
\* queried prefix, its trailing separator kept: for prefix gradle/7.6/ and
\* common prefix gradle/7.6/wrapper/ the entry is "wrapper/".
C8_DirectoryNamesKeepSeparator ==
  IsListing =>
    /\ Range(RowTexts("dir"))
         = {escapeHtml(SliceFrom(cp, Len(ListedPrefix))) : cp \in CommonPrefixes(ListedPrefix)}
    /\ Len(RowTexts("dir")) = Cardinality(CommonPrefixes(ListedPrefix))
    /\ \A i \in 1..Len(RowTexts("dir")) : endsWith(RowTexts("dir")[i], <<"/">>)

C8_Witness ==
  /\ IsListing /\ request.pathname = P_gradle_76_dir
  /\ HasObject(store, K_wrapper)
  /\ \E i \in 1..Len(RowTexts("dir")) : RowTexts("dir")[i] = N_wrapper \o <<"/">>

\* C9: the file entries of a listing for prefix P are the listed object keys
\* other than P whose remainder after P has no "/", each under that remainder
\* as its name; so every file name is non-empty and has no separator.
C9_FilesAreDirectChildren ==
  IsListing =>
    /\ Range(RowTexts("file"))
         = {escapeHtml(r) : r \in {x \in ListedObjectRemainders(ListedPrefix) : x # <<>>}}
    /\ Len(RowTexts("file"))
         = Cardinality({x \in ListedObjectRemainders(ListedPrefix) : x # <<>>})
    /\ \A i \in 1..Len(RowTexts("file")) :
         RowTexts("file")[i] # <<>> /\ ~HasChar(RowTexts("file")[i], "/")

C9_Witness ==
  /\ IsListing /\ request.pathname = P_gradle_76_dir
  /\ HasObject(store, K_marker) /\ HasObject(store, K_bin)
  /\ RowTexts("file") = <<N_bin>>

\* C10: in a listing the directory names and the file names are each in
\* descending order when compared without regard to case, and each is a
\* permutation of the collected entries.
C10_ListingSortedDescending ==
  IsListing =>
    /\ Descending(RowTexts("dir"))
    /\ Descending(RowTexts("file"))
    /\ Range(RowTexts("dir"))
         = {escapeHtml(SliceFrom(cp, Len(ListedPrefix))) : cp \in CommonPrefixes(ListedPrefix)}
    /\ Len(RowTexts("dir")) = Cardinality(Range(RowTexts("dir")))
    /\ Range(RowTexts("file"))
         = {escapeHtml(r) : r \in {x \in ListedObjectRemainders(ListedPrefix) : x # <<>>}}
    /\ Len(RowTexts("file")) = Cardinality(Range(RowTexts("file")))

C10_Witness ==
  /\ IsListing /\ request.pathname = P_gradle_76_dir
  /\ RowTexts("file") = <<N_bin, N_upper>>

\* the five character references escapeHtml writes
ENTITIES ==
  { <<"&", "a", "m", "p", ";">>, <<"&", "l", "t", ";">>, <<"&", "g", "t", ";">>,
    <<"&", "q", "u", "o", "t", ";">>, <<"&", "#", "0", "3", "9", ";">> }

\* s holds no markup character, and each "&" of s begins a character reference
SafeForHtml(s) ==
  /\ \A i \in 1..Len(s) : s[i] \notin {"<", ">", "\"", "'"}
  /\ \A i \in 1..Len(s) :
       s[i] = "&" => \E e \in ENTITIES : i + Len(e) - 1 <= Len(s) /\ SubSeq(s, i, i + Len(e) - 1) = e

\* the names a listing of prefix P shows: directories with their separator, files
ListedNames(P) ==
  {SliceFrom(cp, Len(P)) : cp \in CommonPrefixes(P)}
    \cup {x \in ListedObjectRemainders(P) : x # <<>>}

\* C11: in a listing the title and the heading are the escaped display path,
\* every row's link text is an escaped entry name and its link target the
\* escaped path followed by that escaped name, and each of these strings (the
\* parent link included) holds no "<", ">", double quote or apostrophe, every
\* "&" in them beginning one of &amp; &lt; &gt; &quot; &#039;.
C11_ListingInterpolatesEscapedText ==
  IsListing =>
    /\ response.body.doc.title = escapeHtml(Sanitized.path)
    /\ response.body.doc.heading = escapeHtml(Sanitized.path)
    /\ SafeForHtml(response.body.doc.title) /\ SafeForHtml(response.body.doc.heading)
    /\ \A i \in 1..Len(response.body.doc.rows) :
         /\ SafeForHtml(response.body.doc.rows[i].href)
         /\ SafeForHtml(response.body.doc.rows[i].text)
         /\ response.body.doc.rows[i].kind # "parent" =>
              \E name \in ListedNames(ListedPrefix) :
                /\ response.body.doc.rows[i].text = escapeHtml(name)
                /\ response.body.doc.rows[i].href = escapeHtml(Sanitized.path \o name)

\* /a&b/<c>"'/ is listed: the path and the file name d>.txt need escaping
C11_Witness ==
  /\ IsListing /\ HasObject(store, K_markup)
  /\ Sanitized.path = <<"/", "a", "&", "b", "/", "<", "c", ">", "\"", "'", "/">>
  /\ response.body.doc.heading
       = <<"/", "a", "&", "a", "m", "p", ";", "b", "/", "&", "l", "t", ";", "c", "&", "g", "t", ";",
           "&", "q", "u", "o", "t", ";", "&", "#", "0", "3", "9", ";", "/">>
  /\ RowTexts("file") = << <<"d", "&", "g", "t", ";", ".", "t", "x", "t">> >>
  /\ RowTexts("parent") = << <<".", ".">> >>

\* C12: a request whose method is neither GET nor HEAD is answered 405 with
\* Allow: GET, HEAD and the three security headers, whatever its path (one that
\* sanitizePath rejects included), and no bucket call is made for it.
C12_OtherMethodsNotAllowed ==
  (Responded /\ ~IsGetOrHead) =>
    /\ response.status = 405
    /\ HeaderIs("Allow", "GET, HEAD")
    /\ HeaderIs("X-Content-Type-Options", "nosniff")
    /\ HeaderIs("X-Frame-Options", "DENY")
    /\ HeaderIs("Referrer-Policy", "no-referrer")
    /\ storeOps = <<>>

\* DELETE of a path with a malformed escape, on a bucket that holds objects
C12_Witness ==
  /\ Responded /\ request.method = "DELETE" /\ request.pathname = P_bad_escape
  /\ Sanitized.null /\ store # {}
  /\ response.status = 405 /\ HeaderIs("Allow", "GET, HEAD") /\ storeOps = <<>>

\* C13: every response whose Content-Type is text/html, on whichever route it
\* is produced (a stored .html object served by the asset or the file branch
\* included), carries Content-Security-Policy with the value of HTML_CSP.
C13_HtmlResponsesCarryCsp ==
  (Responded /\ "Content-Type" \in DOMAIN response.headers
             /\ response.headers["Content-Type"] = "text/html; charset=utf-8") =>
    HeaderIs("Content-Security-Policy", HTML_CSP)

\* the response is a 200 that serves an object of the bucket
ServesObject ==
  /\ Responded /\ response.status = 200 /\ response.body.kind \in {"stream", "null"}
  /\ Len(storeOps) = 1 /\ storeOps[1].op \in {"get", "head"}
  /\ HasObject(store, storeOps[1].key)

\* C14: every 200 response that serves an object of the bucket (the shell
\* document, an asset or a file, for GET and for HEAD) has the four headers
\* Content-Type, Content-Length, ETag and Cache-Control, Content-Length being
\* the size of the object and ETag its etag.
C14_ObjectResponsesCarryFourHeaders ==
  ServesObject =>
    /\ "Content-Type" \in DOMAIN response.headers
    /\ "Cache-Control" \in DOMAIN response.headers
    /\ "Content-Length" \in DOMAIN response.headers
    /\ DecimalValue(response.headers["Content-Length"]) = ObjectAt(store, storeOps[1].key).size
    /\ HeaderIs("ETag", ObjectAt(store, storeOps[1].key).etag)

\* C15: for every request path that sanitizePath accepts (a path with repeated
\* leading slashes such as //a.js or //a/ included), no key or prefix passed
\* to a bucket call (get, head, list) begins with "/".
C15_KeysNeverStartWithSeparator ==
  (Responded /\ IsGetOrHead /\ ~Sanitized.null) =>
    \A i \in 1..Len(storeOps) : ~startsWith(storeOps[i].key, <<"/">>)

\* the handler has run for the request: it returned a response or it threw
Handled == pc \in {"responded", "failed"}

\* C16: whatever the request and the bucket (bucket calls of the model always
\* succeed), the handler returns a response, and its status is one of 200,
\* 301, 400, 404 and 405.
C16_StatusCodesUsed ==
  Handled => (Responded /\ response.status \in {200, 301, 400, 404, 405})

\* C17: the handler only reads the bucket: in every step of every sequence of
\* requests the bucket calls made are get, head and list, and the bucket holds
\* the same keys and objects after the step as before it.
C17_StoreIsReadOnly ==
  [][/\ store' = store
     /\ \A i \in 1..Len(storeOps') : storeOps'[i].op \in {"get", "head", "list"}]_vars

\* GET /a.js has been served from the bucket, which still holds a.js
C17_Witness ==
  /\ Responded /\ request.method = "GET" /\ request.pathname = <<"/", "a", ".", "j", "s">>
  /\ response.status = 200 /\ storeOps = <<GetOp(K_asset)>>
  /\ HasObject(store, K_asset)

\* the case of C20: GET or HEAD of an accepted path that is no shell route, does
\* not end with "/" and does not end in a dotted extension
C20_Case ==
  /\ Handled /\ IsGetOrHead /\ ~Sanitized.null
  /\ Sanitized.path \notin {<<"/">>, S_SLASH_INDEX_HTML}
  /\ ~endsWith(Sanitized.path, <<"/">>)
  /\ ~EndsInDottedExtension(Sanitized.path)

\* C20: in that case the handler makes one bucket call, get for GET and head
\* for HEAD, at the path without its leading "/"; when the object exists the
\* response is 200 with the object's etag, size and (for GET) body and
\* Cache-Control: public, max-age=86400; when it does not, the response is 301
\* with Location the origin, the path and "/".
C20_ProbeThenServeOrRedirect ==
  C20_Case =>
    /\ Responded
    /\ storeOps = <<[op |-> IF request.method = "HEAD" THEN "head" ELSE "get",
                     key |-> SliceFrom(Sanitized.path, 1), delimiter |-> ""]>>
    /\ HasObject(store, SliceFrom(Sanitized.path, 1)) =>
         /\ response.status = 200
         /\ HeaderIs("Cache-Control", "public, max-age=86400")
         /\ HeaderIs("ETag", ObjectAt(store, SliceFrom(Sanitized.path, 1)).etag)
         /\ request.method = "GET" =>
              response.body = StreamBody(ObjectAt(store, SliceFrom(Sanitized.path, 1)).body)
    /\ ~HasObject(store, SliceFrom(Sanitized.path, 1)) =>
         /\ response.status = 301
         /\ HeaderIs("Location", request.origin \o Sanitized.path \o <<"/">>)

\* some path of deploy-config.txt, as cleanup-r2.ts read it, is a prefix of key
Preserved(key) ==
  \E i \in 1..Len(cleanup.ignorePaths) : startsWith(key, cleanup.ignorePaths[i])

\* C18: of the keys the bucket held when cleanup-r2.ts listed it, one that a
\* path of deploy-config.txt is a prefix of is never passed to deleteObject and
\* its object stays in the bucket; when the script has exited with code 0,
\* every other one has been passed to deleteObject and its object is gone.
C18_DeletesExactlyTheUnpreserved ==
  /\ \A key \in cleanup.listed :
       Preserved(key) => (HasObject(store, key) /\ key \notin Range(cleanup.deleteCalls))
  /\ (cleanup.pc = "exited" /\ cleanup.exitCode = 0) =>
       \A key \in cleanup.listed :
         ~Preserved(key) => (key \in Range(cleanup.deleteCalls) /\ ~HasObject(store, key))

\* the paths, relative to the directory, of the regular files under it
RECURSIVE FilesUnder(_, _)
FilesUnder(prefix, entries) ==
  UNION { IF e.type = "file" THEN {prefix \o e.name}
          ELSE IF e.type = "directory" THEN FilesUnder(prefix \o e.name \o <<"/">>, e.entries)
          ELSE {} : e \in Range(entries) }

\* the keys of the uploads that succeeded among the first n commands
UploadedBefore(n) ==
  {deploy.commands[j].key :
     j \in {k \in 1..(n - 1) : deploy.commands[k].command = "put" /\ deploy.commands[k].ok}}

\* wrangler deploy is run only with ../dist present, after an upload of every
\* regular file under it, all commands before it having succeeded
C19_DeployAfterAllUploads ==
  \A i \in 1..Len(deploy.commands) :
    deploy.commands[i].command = "deploy" =>
      /\ fs.dist.exists
      /\ UploadedBefore(i) = FilesUnder(<<>>, fs.dist.entries)
      /\ \A j \in 1..(i - 1) : deploy.commands[j].ok

\* a command that failed is the last one run, and the script has exited with 1;
\* without ../dist no command is run and the script exits with 1
C19_FailureStopsWithCode1 ==
  /\ \A i \in 1..Len(deploy.commands) :
       ~deploy.commands[i].ok =>
         (i = Len(deploy.commands) /\ deploy.pc = "exited" /\ deploy.exitCode = 1)
  /\ ~fs.dist.exists =>
       /\ deploy.commands = <<>>
       /\ deploy.pc \in {"readDeployConfig", "uploadSiteFiles", "exited"}
       /\ deploy.pc = "exited" => deploy.exitCode = 1

\* the script exits with 0 or 1, with 0 only when its last command was a
\* wrangler deploy that succeeded
C19_ExitCodes ==
  /\ deploy.pc = "exited" <=> deploy.exitCode \in {0, 1}
  /\ deploy.exitCode = 0 =>
       /\ deploy.commands # <<>>
       /\ deploy.commands[Len(deploy.commands)].command = "deploy"
       /\ deploy.commands[Len(deploy.commands)].ok

\* C19: deploy-site.ts runs wrangler deploy only after every file under
\* ../dist has been uploaded with success; when ../dist is missing or an
\* upload fails, no further upload and no deploy is run and the exit code is
\* 1; the exit code is 0 only after a deploy that succeeded; and no step of
\* the script takes a key out of the bucket.
C19_DeployOnlyAfterUploads ==
  /\ [](C19_DeployAfterAllUploads /\ C19_FailureStopsWithCode1 /\ C19_ExitCodes)
  /\ [][\A o \in store : HasObject(store', o.key)]_vars

\* the third build has been deployed over a bucket that held index.html v1 and
\* the gradle distribution: three uploads, the deploy, exit code 0
C19_Witness ==
  /\ deploy.pc = "exited" /\ deploy.exitCode = 0
  /\ deploy.uploadedCount = 3 /\ Len(deploy.commands) = 4
  /\ Cardinality(store) = 4
  /\ HasObject(store, K_bin)
  /\ ObjectAt(store, K_index).body = "index.html v2"

\* p has "/gradle/" somewhere in it
HasGradleDir(p) ==
  \E i \in 1..(Len(p) - 7) : SubSeq(p, i, i + 7) = S_SLASH_GRADLE_SLASH

\* the case of C21: GET or HEAD of an accepted path that ends in a dotted
\* extension and has "/gradle/" somewhere in it
C21_Case ==
  /\ Handled /\ IsGetOrHead /\ ~Sanitized.null
  /\ EndsInDottedExtension(Sanitized.path)
  /\ HasGradleDir(Sanitized.path)

\* C21: in that case the handler makes one bucket call, get for GET and head
\* for HEAD, at the path without its leading "/"; a hit is answered 200 with
\* Cache-Control: public, max-age=86400, a miss 404 "Not Found"; the answer is
\* never a redirect and never a listing.
C21_GradleFileIsDirectLookup ==
  C21_Case =>
    /\ Responded
    /\ storeOps = <<[op |-> IF request.method = "HEAD" THEN "head" ELSE "get",
                     key |-> SliceFrom(Sanitized.path, 1), delimiter |-> ""]>>
    /\ HasObject(store, SliceFrom(Sanitized.path, 1)) =>
         /\ response.status = 200
         /\ HeaderIs("Cache-Control", "public, max-age=86400")
         /\ HeaderIs("ETag", ObjectAt(store, SliceFrom(Sanitized.path, 1)).etag)
    /\ ~HasObject(store, SliceFrom(Sanitized.path, 1)) =>
         /\ response.status = 404
         /\ response.body = TextBody("Not Found")
    /\ "Location" \notin DOMAIN response.headers
    /\ response.body.kind # "html"

\* GET /gradle/7.6/B.zip is a hit, served with the day-long policy
C21_Witness ==
  /\ C21_Case /\ request.method = "GET"
  /\ Sanitized.path = <<"/">> \o K_upper
  /\ response.status = 200 /\ HeaderIs("Cache-Control", "public, max-age=86400")
  /\ response.body = StreamBody("B.zip")

\* the Cache-Control of a 200 response for an accepted path, by its route
PolicyOfRoute(p) ==
  IF p \in { <<"/">>, S_SLASH_INDEX_HTML } THEN "public, max-age=300"
  ELSE IF p[Len(p)] = "/" THEN "public, max-age=31536000"
  ELSE IF EndsInDottedExtension(p) /\ ~HasGradleDir(p)
  THEN "public, max-age=31536000, immutable"
  ELSE "public, max-age=86400"

\* C22: Cache-Control depends on the route only: a 200 response carries
\* public, max-age=300 for the shell ("/" and "/index.html"), public,
\* max-age=31536000, immutable for an asset (dotted path without "/gradle/"),
\* public, max-age=86400 for a file and public, max-age=31536000 for a
\* directory listing; responses 301, 400, 404 and 405 carry no Cache-Control.
C22_CacheControlPerRoute ==
  Responded =>
    /\ response.status \in {301, 400, 404, 405} => "Cache-Control" \notin DOMAIN response.headers
    /\ response.status = 200 =>
         /\ IsGetOrHead /\ ~Sanitized.null
         /\ HeaderIs("Cache-Control", PolicyOfRoute(Sanitized.path))
         /\ response.body.kind = "html" <=> endsWith(Sanitized.path, <<"/">>) /\ Sanitized.path # <<"/">>

\* GET /index.html, a dotted path, is served with the shell's policy
C22_Witness ==
  /\ Responded /\ request.method = "GET" /\ request.pathname = S_SLASH_INDEX_HTML
  /\ EndsInDottedExtension(Sanitized.path)
  /\ response.status = 200 /\ HeaderIs("Cache-Control", "public, max-age=300")

\* the text of p after its last ".", in lower case; all of p when it has none
ExtensionOf(p) ==
  LET dots == {i \in 1..Len(p) : p[i] = "."}
      last == IF dots = {} THEN 0 ELSE CHOOSE i \in dots : \A j \in dots : j <= i
  IN  [k \in 1..(Len(p) - last) |-> LowerChar(p[last + k])]

\* C23: for every accepted path of a GET or HEAD request, getContentType gives
\* the entry of the table of 16 extensions for the lower-cased text after the
\* last "." of the path, and application/octet-stream when that text is no
\* extension of the table; and every object served for a path that neither
\* ends with "/" nor ends in a dotted extension has the Content-Type
\* application/octet-stream.
C23_ContentTypeFromTable ==
  /\ (pc \in {"handling", "responded"} /\ IsGetOrHead /\ ~Sanitized.null) =>
       getContentType(Sanitized.path) =
         IF ExtensionOf(Sanitized.path) \in DOMAIN ContentTypes
         THEN ContentTypes[ExtensionOf(Sanitized.path)]
         ELSE "application/octet-stream"
  /\ (C20_Case /\ Responded /\ response.status = 200) =>
       HeaderIs("Content-Type", "application/octet-stream")

\* the directory path p without its last segment, the "/" before it kept
ParentOf(p) ==
  LET q == DropLast(p)
  IN  Take(p, CHOOSE k \in 1..Len(q) : q[k] = "/" /\ \A j \in (k + 1)..Len(q) : q[j] # "/")

\* the place of a row in the page: the parent row, then directories, then files
RowRank(row) == CASE row.kind = "parent" -> 0 [] row.kind = "dir" -> 1 [] OTHER -> 2

\* C24: a listing has a ".." row exactly when its display path is not "/";
\* that row is the first one, directory rows come before file rows, and the
\* link of the ".." row is (in HTML-escaped form) the display path without its
\* last segment, ending with "/". The page of the bucket root, as
\* generateDirectoryListing renders it for the display path "/", has no ".." row.
C24_ParentRowFirst ==
  IsListing =>
    LET rows == response.body.doc.rows
    IN  /\ (\E i \in 1..Len(rows) : rows[i].kind = "parent") <=> Sanitized.path # <<"/">>
        /\ \A i \in 1..Len(rows) : rows[i].kind = "parent" =>
             /\ i = 1
             /\ rows[i].text = <<".", ".">>
             /\ rows[i].href = escapeHtml(ParentOf(Sanitized.path))
        /\ \A i \in 1..(Len(rows) - 1) : RowRank(rows[i]) <= RowRank(rows[i + 1])
        /\ \A row \in Range(generateDirectoryListing(store, <<>>, <<"/">>).response.body.doc.rows) :
             row.kind # "parent"

\* the listing of /gradle/7.6/ with a directory and a file: "..", linking to
\* /gradle/, then wrapper/, then B.zip
C24_Witness ==
  /\ IsListing /\ Sanitized.path = P_gradle_76_dir
  /\ Len(response.body.doc.rows) = 3
  /\ response.body.doc.rows[1].kind = "parent"
  /\ response.body.doc.rows[1].href = <<"/", "g", "r", "a", "d", "l", "e", "/">>
  /\ response.body.doc.rows[2].kind = "dir"
  /\ response.body.doc.rows[3].kind = "file"

\* the text of a formatted size before its first space, and after it
NumberPart(text) ==
  Take(text, (CHOOSE k \in 1..Len(text) : text[k] = " " /\ \A j \in 1..(k - 1) : text[j] # " ") - 1)

UnitPart(text) == SliceFrom(text, Len(NumberPart(text)) + 1)

\* C25: formatSize renders every byte count as a number, a space and one of
\* the units B, KB, MB, GB, TB, the unit being the one whose index is the
\* whole part of the logarithm of the count to base 1024 (counts of 1024^5 and
\* more included); 0 is rendered "0 B", a count below 1024 as an integer, a
\* larger one with one decimal.
C25_SizeHasOneOfFiveUnits ==
  render.pc = "returned" =>
    /\ UnitPart(render.text) \in Range(UNITS)
    /\ Len(render.bytes) <= Len(UNITS)
    /\ UnitPart(render.text) = UNITS[Len(render.bytes)]
    /\ render.bytes = <<0>> => render.text = <<"0", " ", "B">>
    /\ LET number == NumberPart(render.text)
       IN  IF Len(render.bytes) = 1
           THEN number = NumberToString(render.bytes[1])
           ELSE /\ Len(number) >= 3
                /\ number[Len(number) - 1] = "."
                /\ \A k \in 1..Len(number) : k # Len(number) - 1 => number[k] \in Digits

\* the bucket call a request in flight has to make, by its response
CallsOf(q) ==
  IF q.pc = "responded" /\ q.response.status \in {400, 405} THEN {<<>>}
  ELSE IF q.pc = "responded" /\ q.response.status = 200 /\ q.response.body.kind = "html"
  THEN { <<[op |-> "list", key |-> k, delimiter |-> "/"]>> : k \in {SliceFrom(q.request.pathname, 1)} }
  ELSE { <<[op |-> IF q.request.method = "HEAD" THEN "head" ELSE "get", key |-> k, delimiter |-> ""]>> :
           k \in {o.key : o \in Catalog} \cup {SliceFrom(q.request.pathname, 1)} }

\* C26: with several requests in flight, each request makes at most one bucket
\* call: none when it is answered 405 or 400, one list with the delimiter "/"
\* when it is answered with a listing, and otherwise (shell, asset, file,
\* redirect) one get for GET and one head for HEAD; and its response is the one
\* the same request gets when it is handled alone on the bucket, however the
\* steps of the other requests are interleaved with its own.
C26_OneStoreCallPerRequest ==
  \A s \in DOMAIN inflight :
    inflight[s].pc \in {"responded", "failed"} =>
      /\ Len(inflight[s].storeOps) <= 1
      /\ inflight[s].storeOps \in CallsOf(inflight[s])
      /\ inflight[s].response = fetch(inflight[s].request, store).response

\* a GET of /a.js has been answered from one get while a GET of /gradle/ was
\* in flight, which has been answered from one list
C26_Witness ==
  /\ inflight[1].pc = "responded" /\ inflight[1].request.method = "GET"
  /\ inflight[1].response.status = 200
  /\ inflight[1].storeOps = <<GetOp(K_asset)>>
  /\ inflight[2].pc = "responded"
  /\ inflight[2].storeOps = <<ListOp(<<"g", "r", "a", "d", "l", "e", "/">>, "/")>>
  /\ Len(inflight[2].response.body.doc.rows) = 2

\* C27: a GET that a client makes by following a 301 of the handler is
\* answered 200 with a directory listing (an empty one when the bucket has
\* nothing under the prefix), never with another 301; and a GET of an accepted
\* path without a dotted extension is never answered 404.
C27_RedirectsNeverChain ==
  /\ (Handled /\ request.method = "GET" /\ request.redirects >= 1) =>
       /\ Responded
       /\ response.status = 200
       /\ response.body.kind = "html"
  /\ (C20_Case /\ request.method = "GET" /\ Responded) => response.status # 404

\* C28: a GET or HEAD of "/" is answered by the shell: its one bucket call is a
\* get or head of index.html and its response is no listing; and every list
\* call of the handler has a prefix that is not empty, for a display path that
\* is not "/", and the listing returned has the ".." row.
C28_RootIsNeverListed ==
  /\ (Handled /\ IsGetOrHead /\ ~Sanitized.null /\ Sanitized.path = <<"/">>) =>
       /\ Len(storeOps) = 1
       /\ storeOps[1].op \in {"get", "head"} /\ storeOps[1].key = S_INDEX_HTML
       /\ response.body.kind # "html"
  /\ \A i \in 1..Len(storeOps) : storeOps[i].op = "list" =>
       /\ storeOps[i].key # <<>>
       /\ Sanitized.path # <<"/">>
       /\ response.body.kind = "html"
       /\ response.body.doc.heading # <<"/">>
       /\ \E k \in 1..Len(response.body.doc.rows) : response.body.doc.rows[k].kind = "parent"

\* GET / on a bucket that holds objects but no index.html: 404 from the shell
\* branch, no list call
C28_Witness ==
  /\ Responded /\ request.method = "GET" /\ request.pathname = <<"/">>
  /\ store # {} /\ ~HasObject(store, S_INDEX_HTML)
  /\ response.status = 404 /\ storeOps = <<GetOp(S_INDEX_HTML)>>

====
